---- MODULE Spec2Model ----
(***************************************************************************)
(* A model of ro-imap-proxy: the IMAP line parsers and the read-only       *)
(* policy filter (internal/imap), the folder policy (internal/config) and  *)
(* the per-connection session engine and the accept loop of the server    *)
(* (internal/proxy, cmd/imap-proxy).                                       *)
(*                                                                         *)
(* A byte string is a sequence of one-character strings; a line keeps its  *)
(* terminator, as in the Go code.  Indexes are 1-based, and IndexByte      *)
(* returns 0 where Go returns -1.                                          *)
(***************************************************************************)
EXTENDS Integers, Sequences, FiniteSets, TLC

VARIABLES
    state,          \* Session.state: "Greeting", "Auth" (StateAuthenticated)
    account,        \* Session.account: index into Accounts, NoAccount for nil
    upstreamConn,   \* Session.upstreamConn: "nil" or "conn"
    csent,          \* every byte the client has sent on its connection
    cpos,           \* how many of them the proxy has read
    clientEOF,      \* the client has closed its end
    usent,          \* every byte the upstream has sent after its LOGIN reply
    upos,           \* how many of them the proxy has read
    upEOF,          \* the upstream has closed its end
    cout,           \* the writes that reached the client, each with its goroutine
    uout,           \* the writes that reached an upstream connection
    pcC,            \* where the main goroutine (Session.Run) stands
    pcU,            \* where the upstream-to-client goroutine stands
    litC,           \* literal bytes the main goroutine has still to copy or discard
    litU,           \* the same for the upstream-to-client goroutine
    onceDone,       \* runPostAuth's sync.Once has run
    clientCloses,   \* calls of s.clientConn.Close()
    upstreamCloses, \* calls of s.upstreamConn.Close()
    dials,          \* upstream connections opened by dialUpstream
    abandoned,      \* of these, closed by handleLogin after a failed LOGIN
    nEvents,        \* events of the environment so far
    nPre,           \* chunks the client sent before authentication
    cur,            \* record of the command the main goroutine handled last
    login,          \* record of the last LOGIN handled
    pfn,            \* pure-function harness: the function under evaluation
    pin,            \* pure-function harness: its input
    pout,           \* pure-function harness: its result (NoResult before the call)
    srvPc,          \* where main stands: ListenAndServe, Serve, returned, exited
    srvListener,    \* Server.listener: "nil" or "l"
    lstate,         \* the net.Listener: "none" before net.Listen, "open", "closed"
    srvErr,         \* what ListenAndServe returned: "none" until it returns
    sigPc,          \* where the signal goroutine stands in srv.Close()
    closeL,         \* the local l of Server.Close
    pending,        \* connections waiting in the listener's queue
    nConns,         \* connections the clients have made so far
    sessions        \* the sessions Serve has started, each with its status

pvars == <<pfn, pin, pout>>

srvVars == <<srvPc, srvListener, lstate, srvErr, sigPc, closeL, pending, nConns, sessions>>

\* The server as NewServer returns it, main about to call ListenAndServe and
\* the signal goroutine waiting on sigCh
ServerInit ==
    /\ srvPc = "listen" /\ srvListener = "nil" /\ lstate = "none" /\ srvErr = "none"
    /\ sigPc = "wait" /\ closeL = "nil"
    /\ pending = 0 /\ nConns = 0 /\ sessions = <<>>

(***************************************************************************)
(* Bytes                                                                   *)
(***************************************************************************)
CR == "\r"
LF == "\n"
SP == " "
DQ == "\""
BS == "\\"
CRLF == <<CR, LF>>

LowerBytes == <<"a", "b", "c", "d", "e", "f", "g", "h", "i", "j", "k", "l", "m",
                "n", "o", "p", "q", "r", "s", "t", "u", "v", "w", "x", "y", "z">>
UpperBytes == <<"A", "B", "C", "D", "E", "F", "G", "H", "I", "J", "K", "L", "M",
                "N", "O", "P", "Q", "R", "S", "T", "U", "V", "W", "X", "Y", "Z">>
DigitBytes == <<"0", "1", "2", "3", "4", "5", "6", "7", "8", "9">>

\* strings.ToUpper / bytes.ToUpper on one ASCII byte
UpperByte(c) ==
    IF \E i \in 1..26 : LowerBytes[i] = c
    THEN UpperBytes[CHOOSE i \in 1..26 : LowerBytes[i] = c]
    ELSE c

ToUpper(s) == [i \in 1..Len(s) |-> UpperByte(s[i])]

\* strings.EqualFold on ASCII
EqualFold(s, t) == ToUpper(s) = ToUpper(t)

\* bytes.IndexByte: the first position of c in s, 0 when absent
IndexByte(s, c) ==
    IF \E i \in 1..Len(s) : s[i] = c
    THEN CHOOSE i \in 1..Len(s) : s[i] = c /\ \A j \in 1..(i - 1) : s[j] /= c
    ELSE 0

\* bytes.LastIndexByte: the last position of c in s, 0 when absent
LastIndexByte(s, c) ==
    IF \E i \in 1..Len(s) : s[i] = c
    THEN CHOOSE i \in 1..Len(s) : s[i] = c /\ \A j \in (i + 1)..Len(s) : s[j] /= c
    ELSE 0

\* s[from:] of Go with a 1-based first position
From(s, i) == SubSeq(s, i, Len(s))

\* strings.HasPrefix
HasPrefix(s, p) == Len(s) >= Len(p) /\ SubSeq(s, 1, Len(p)) = p

\* strings.Contains
Contains(s, p) == \E i \in 1..(Len(s) - Len(p) + 1) : SubSeq(s, i, i + Len(p) - 1) = p

\* bytes.TrimRight(s, "\r\n")
RECURSIVE TrimRightCRLF(_)
TrimRightCRLF(s) ==
    IF Len(s) > 0 /\ s[Len(s)] \in {CR, LF}
    THEN TrimRightCRLF(SubSeq(s, 1, Len(s) - 1))
    ELSE s

\* bytes.TrimLeft(s, " ")
RECURSIVE TrimLeftSP(_)
TrimLeftSP(s) ==
    IF Len(s) > 0 /\ s[1] = SP THEN TrimLeftSP(Tail(s)) ELSE s

(***************************************************************************)
(* Words and fixed lines of the protocol                                   *)
(***************************************************************************)
W_STORE == <<"S", "T", "O", "R", "E">>
W_COPY == <<"C", "O", "P", "Y">>
W_MOVE == <<"M", "O", "V", "E">>
W_DELETE == <<"D", "E", "L", "E", "T", "E">>
W_EXPUNGE == <<"E", "X", "P", "U", "N", "G", "E">>
W_APPEND == <<"A", "P", "P", "E", "N", "D">>
W_CREATE == <<"C", "R", "E", "A", "T", "E">>
W_RENAME == <<"R", "E", "N", "A", "M", "E">>
W_SUBSCRIBE == <<"S", "U", "B", "S", "C", "R", "I", "B", "E">>
W_UNSUBSCRIBE == <<"U", "N", "S", "U", "B", "S", "C", "R", "I", "B", "E">>
W_AUTHENTICATE == <<"A", "U", "T", "H", "E", "N", "T", "I", "C", "A", "T", "E">>
W_SELECT == <<"S", "E", "L", "E", "C", "T">>
W_EXAMINE == <<"E", "X", "A", "M", "I", "N", "E">>
W_STATUS == <<"S", "T", "A", "T", "U", "S">>
W_UID == <<"U", "I", "D">>
W_FETCH == <<"F", "E", "T", "C", "H">>
W_NOOP == <<"N", "O", "O", "P">>
W_LIST == <<"L", "I", "S", "T">>
W_LSUB == <<"L", "S", "U", "B">>
W_SEARCH == <<"S", "E", "A", "R", "C", "H">>
W_IDLE == <<"I", "D", "L", "E">>
W_DONE == <<"D", "O", "N", "E">>
W_LOGOUT == <<"L", "O", "G", "O", "U", "T">>
W_LOGIN == <<"L", "O", "G", "I", "N">>
W_CAPABILITY == <<"C", "A", "P", "A", "B", "I", "L", "I", "T", "Y">>
W_NIL == <<"N", "I", "L">>
W_INBOX == <<"I", "N", "B", "O", "X">>

MsgUIDNotAllowed == <<SP, "N", "O", SP, "U", "I", "D", SP, "s", "u", "b", "c", "o", "m", "m", "a", "n", "d", SP, "n", "o", "t", SP, "a", "l", "l", "o", "w", "e", "d", SP, "i", "n", SP, "r", "e", "a", "d", "-", "o", "n", "l", "y", SP, "m", "o", "d", "e", CR, LF>>
MsgNO == <<SP, "N", "O", SP>>
MsgNotAllowed == <<SP, "n", "o", "t", SP, "a", "l", "l", "o", "w", "e", "d", SP, "i", "n", SP, "r", "e", "a", "d", "-", "o", "n", "l", "y", SP, "m", "o", "d", "e", CR, LF>>
MsgGreeting == <<"*", SP, "O", "K", SP, "r", "o", "-", "i", "m", "a", "p", "-", "p", "r", "o", "x", "y", SP, "r", "e", "a", "d", "y", CR, LF>>
MsgBadCommand == <<SP, "B", "A", "D", SP, "c", "o", "m", "m", "a", "n", "d", SP, "n", "o", "t", SP, "r", "e", "c", "o", "g", "n", "i", "z", "e", "d", CR, LF>>
MsgCapability == <<"*", SP, "C", "A", "P", "A", "B", "I", "L", "I", "T", "Y", SP, "I", "M", "A", "P", "4", "r", "e", "v", "1", SP, "I", "D", "L", "E", SP, "L", "I", "T", "E", "R", "A", "L", "+", CR, LF>>
MsgOKCapability == <<SP, "O", "K", SP, "C", "A", "P", "A", "B", "I", "L", "I", "T", "Y", SP, "c", "o", "m", "p", "l", "e", "t", "e", "d", CR, LF>>
MsgOKNoop == <<SP, "O", "K", SP, "N", "O", "O", "P", SP, "c", "o", "m", "p", "l", "e", "t", "e", "d", CR, LF>>
MsgBye == <<"*", SP, "B", "Y", "E", SP, "r", "o", "-", "i", "m", "a", "p", "-", "p", "r", "o", "x", "y", SP, "l", "o", "g", "g", "i", "n", "g", SP, "o", "u", "t", CR, LF>>
MsgOKLogout == <<SP, "O", "K", SP, "L", "O", "G", "O", "U", "T", SP, "c", "o", "m", "p", "l", "e", "t", "e", "d", CR, LF>>
MsgNOLogin == <<SP, "N", "O", SP, "L", "O", "G", "I", "N", SP, "f", "a", "i", "l", "e", "d", CR, LF>>
MsgOKLogin == <<SP, "O", "K", SP, "L", "O", "G", "I", "N", SP, "c", "o", "m", "p", "l", "e", "t", "e", "d", CR, LF>>
MsgNOFolder == <<SP, "N", "O", SP, "f", "o", "l", "d", "e", "r", SP, "n", "o", "t", SP, "a", "v", "a", "i", "l", "a", "b", "l", "e", CR, LF>>
MsgProxyLogin == <<"p", "r", "o", "x", "y", "0", SP, "L", "O", "G", "I", "N", SP>>
MsgProxyTag == <<"p", "r", "o", "x", "y", "0", SP>>
MsgSpOK == <<SP, "O", "K">>

(***************************************************************************)
(* internal/imap: ParseCommand                                             *)
(***************************************************************************)
NoCommand(e) == [err |-> e, Tag |-> <<>>, Verb |-> <<>>, SubVerb |-> <<>>, Raw |-> <<>>]

\* The token of s that ends at the first space, or all of s
FirstToken(s) ==
    IF IndexByte(s, SP) = 0 THEN s ELSE SubSeq(s, 1, IndexByte(s, SP) - 1)

\* What follows the first space of s, empty when s has no space
AfterFirstToken(s) ==
    IF IndexByte(s, SP) = 0 THEN <<>> ELSE From(s, IndexByte(s, SP) + 1)

\* A ParseCommand that hands out the UID sub-verb in the client's letter case
ParseCommand_SubVerbAsSent(line) ==
    LET data  == TrimRightCRLF(line)
        spIdx == IndexByte(data, SP)
        tag   == SubSeq(data, 1, spIdx - 1)
        rest  == From(data, spIdx + 1)
        verb  == ToUpper(FirstToken(rest))
        afterVerb == AfterFirstToken(rest)
    IN  IF Len(line) = 0 THEN NoCommand("empty line")
        ELSE IF Len(data) = 0 THEN NoCommand("empty line")
        ELSE IF spIdx = 0 THEN
            IF ToUpper(data) = W_DONE
            THEN [err |-> "nil", Tag |-> <<>>, Verb |-> W_DONE, SubVerb |-> <<>>, Raw |-> line]
            ELSE NoCommand("missing verb")
        ELSE IF tag = <<>> THEN NoCommand("missing tag")
        ELSE IF Len(rest) = 0 THEN NoCommand("missing verb")
        ELSE IF verb = <<>> THEN NoCommand("missing verb")
        ELSE [err |-> "nil", Tag |-> tag, Verb |-> verb,
              SubVerb |-> IF verb = W_UID /\ Len(afterVerb) > 0
                          THEN FirstToken(afterVerb)
                          ELSE <<>>,
              Raw |-> line]

ParseCommand(line) ==
    LET data  == TrimRightCRLF(line)
        spIdx == IndexByte(data, SP)
        tag   == SubSeq(data, 1, spIdx - 1)
        rest  == From(data, spIdx + 1)
        verb  == ToUpper(FirstToken(rest))
        afterVerb == AfterFirstToken(rest)
    IN  IF Len(line) = 0 THEN NoCommand("empty line")
        ELSE IF Len(data) = 0 THEN NoCommand("empty line")
        ELSE IF spIdx = 0 THEN
            IF ToUpper(data) = W_DONE
            THEN [err |-> "nil", Tag |-> <<>>, Verb |-> W_DONE, SubVerb |-> <<>>, Raw |-> line]
            ELSE NoCommand("missing verb")
        ELSE IF tag = <<>> THEN NoCommand("missing tag")
        ELSE IF Len(rest) = 0 THEN NoCommand("missing verb")
        ELSE IF verb = <<>> THEN NoCommand("missing verb")
        ELSE [err |-> "nil", Tag |-> tag, Verb |-> verb,
              SubVerb |-> IF verb = W_UID /\ Len(afterVerb) > 0
                          THEN ToUpper(FirstToken(afterVerb))
                          ELSE <<>>,
              Raw |-> line]

(***************************************************************************)
(* internal/imap: Filter                                                   *)
(***************************************************************************)
Allow   == "Allow"
Block   == "Block"
Rewrite == "Rewrite"

\* blockedVerbs with APPEND forgotten
blockedVerbs_NoAppend ==
    {W_STORE, W_COPY, W_MOVE, W_DELETE, W_EXPUNGE, W_CREATE, W_RENAME,
     W_SUBSCRIBE, W_UNSUBSCRIBE, W_AUTHENTICATE}

\* blockedVerbs with STORE forgotten
blockedVerbs_NoStore ==
    {W_COPY, W_MOVE, W_DELETE, W_EXPUNGE, W_APPEND, W_CREATE, W_RENAME,
     W_SUBSCRIBE, W_UNSUBSCRIBE, W_AUTHENTICATE}

blockedVerbs ==
    {W_STORE, W_COPY, W_MOVE, W_DELETE, W_EXPUNGE, W_APPEND, W_CREATE, W_RENAME,
     W_SUBSCRIBE, W_UNSUBSCRIBE, W_AUTHENTICATE}

\* blockedUIDSubVerbs with only STORE in it
blockedUIDSubVerbs_StoreOnly == {W_STORE}

blockedUIDSubVerbs == {W_STORE, W_COPY, W_MOVE, W_EXPUNGE}

FilterResult(a, rw, msg) == [Action |-> a, Rewritten |-> rw, RejectMsg |-> msg]

\* RewriteSelect with the slot taken to be as long as EXAMINE
RewriteSelect_SlotOfSeven(cmd) ==
    LET verbStart == Len(cmd.Tag) + 1
        verbEnd   == verbStart + Len(W_EXAMINE)
    IN  SubSeq(cmd.Raw, 1, verbStart) \o W_EXAMINE \o From(cmd.Raw, verbEnd + 1)

\* The positional replacement of the verb slot by EXAMINE
RewriteSelect(cmd) ==
    LET verbStart == Len(cmd.Tag) + 1
        verbEnd   == verbStart + Len(W_SELECT)
    IN  SubSeq(cmd.Raw, 1, verbStart) \o W_EXAMINE \o From(cmd.Raw, verbEnd + 1)

Filter(cmd) ==
    IF cmd.Verb = W_UID THEN
        IF cmd.SubVerb \in blockedUIDSubVerbs
        THEN FilterResult(Block, <<>>, cmd.Tag \o MsgUIDNotAllowed)
        ELSE FilterResult(Allow, <<>>, <<>>)
    ELSE IF cmd.Verb \in blockedVerbs
        THEN FilterResult(Block, <<>>, cmd.Tag \o MsgNO \o cmd.Verb \o MsgNotAllowed)
    ELSE IF cmd.Verb = W_SELECT
        THEN FilterResult(Rewrite, RewriteSelect(cmd), <<>>)
    ELSE FilterResult(Allow, <<>>, <<>>)

(***************************************************************************)
(* internal/imap: ParseLiteral                                             *)
(***************************************************************************)
IsDigit(c) == \E i \in 1..10 : DigitBytes[i] = c

DigitValue(c) == (CHOOSE i \in 1..10 : DigitBytes[i] = c) - 1

RECURSIVE DecValue(_)
DecValue(ds) ==
    IF Len(ds) = 0 THEN 0
    ELSE 10 * DecValue(SubSeq(ds, 1, Len(ds) - 1)) + DigitValue(ds[Len(ds)])

RECURSIVE StripZeros(_)
StripZeros(ds) == IF Len(ds) > 1 /\ ds[1] = "0" THEN StripZeros(Tail(ds)) ELSE ds

\* Lexicographic a <= b for digit strings of one length
RECURSIVE DigitsLeq(_, _)
DigitsLeq(a, b) ==
    IF Len(a) = 0 THEN TRUE
    ELSE IF DigitValue(a[1]) < DigitValue(b[1]) THEN TRUE
    ELSE IF DigitValue(a[1]) > DigitValue(b[1]) THEN FALSE
    ELSE DigitsLeq(Tail(a), Tail(b))

MaxInt64Digits ==
    <<"9", "2", "2", "3", "3", "7", "2", "0", "3", "6", "8", "5", "4", "7", "7",
      "5", "8", "0", "7">>

\* strconv.ParseInt(s, 10, 64): an optional sign, then one or more digits, and
\* a magnitude that fits.  neg tells a minus sign; val is the magnitude.
ParseInt(s) ==
    LET signed == Len(s) > 0 /\ s[1] \in {"+", "-"}
        ds     == IF signed THEN Tail(s) ELSE s
        mag    == StripZeros(ds)
        syntax == Len(ds) > 0 /\ \A i \in 1..Len(ds) : IsDigit(ds[i])
        fits   == Len(mag) < Len(MaxInt64Digits)
                  \/ (Len(mag) = Len(MaxInt64Digits) /\ DigitsLeq(mag, MaxInt64Digits))
    IN  IF syntax /\ fits
        THEN [ok |-> TRUE, neg |-> (signed /\ s[1] = "-"), val |-> DecValue(mag)]
        ELSE [ok |-> FALSE, neg |-> FALSE, val |-> 0]

NoLiteral == [n |-> 0, nonSync |-> FALSE, ok |-> FALSE]

ParseLiteral(line) ==
    LET data     == TrimRightCRLF(line)
        closeIdx == Len(data)
        openIdx  == LastIndexByte(SubSeq(data, 1, closeIdx - 1), "{")
        inner0   == SubSeq(data, openIdx + 1, closeIdx - 1)
        ns       == Len(inner0) > 0 /\ inner0[Len(inner0)] = "+"
        inner    == IF ns THEN SubSeq(inner0, 1, Len(inner0) - 1) ELSE inner0
        count    == ParseInt(inner)
    IN  IF Len(data) = 0 THEN NoLiteral
        ELSE IF data[Len(data)] /= "}" THEN NoLiteral
        ELSE IF openIdx = 0 THEN NoLiteral
        ELSE IF Len(inner0) = 0 THEN NoLiteral
        ELSE IF Len(inner) = 0 THEN NoLiteral
        ELSE IF ~count.ok \/ (count.neg /\ count.val > 0) THEN NoLiteral
        ELSE [n |-> count.val, nonSync |-> ns, ok |-> TRUE]

(***************************************************************************)
(* internal/imap: ParseListResponse                                        *)
(***************************************************************************)
NotList == [mailbox |-> <<>>, ok |-> FALSE]

\* The quoted-string scan shared by ParseListResponse and parseOneArg: s[i]
\* is the byte under the cursor (1-based), acc the decoded bytes so far.
\* Only the pair \" is an escape.  closed is FALSE when the quote never ends.
RECURSIVE ScanQuoted(_, _, _)
ScanQuoted(s, i, acc) ==
    IF i > Len(s) THEN [closed |-> FALSE, value |-> <<>>, rest |-> <<>>]
    ELSE IF s[i] = BS /\ i + 1 <= Len(s) /\ s[i + 1] = DQ
        THEN ScanQuoted(s, i + 2, Append(acc, DQ))
    ELSE IF s[i] = DQ
        THEN [closed |-> TRUE, value |-> acc, rest |-> From(s, i + 1)]
    ELSE ScanQuoted(s, i + 1, Append(acc, s[i]))

\* The mailbox field: what follows the delimiter
ListMailbox(rest0) ==
    LET rest == TrimLeftSP(rest0)
    IN  IF Len(rest) = 0 THEN NotList
        ELSE IF rest[1] = DQ THEN
            IF ScanQuoted(rest, 2, <<>>).closed
            THEN [mailbox |-> ScanQuoted(rest, 2, <<>>).value, ok |-> TRUE]
            ELSE NotList
        ELSE [mailbox |-> rest, ok |-> TRUE]

\* The delimiter field: a quoted string or NIL
ListDelimiter(rest0) ==
    LET rest == TrimLeftSP(rest0)
        end  == IndexByte(Tail(rest), DQ)
    IN  IF Len(rest) = 0 THEN NotList
        ELSE IF rest[1] = DQ THEN
            IF end = 0 THEN NotList ELSE ListMailbox(From(rest, end + 2))
        ELSE IF Len(rest) >= 3 /\ EqualFold(SubSeq(rest, 1, 3), W_NIL)
            THEN ListMailbox(From(rest, 4))
        ELSE NotList

\* The parenthesized flags
ListFlags(rest0) ==
    LET rest     == TrimLeftSP(rest0)
        closeIdx == IndexByte(rest, ")")
    IN  IF Len(rest) = 0 \/ rest[1] /= "(" THEN NotList
        ELSE IF closeIdx = 0 THEN NotList
        ELSE ListDelimiter(From(rest, closeIdx + 1))

ParseListResponse(line) ==
    LET data == TrimRightCRLF(line)
        rest == From(data, 3)
        verb == ToUpper(SubSeq(rest, 1, 4))
    IN  IF Len(data) < 7 \/ data[1] /= "*" \/ data[2] /= SP THEN NotList
        ELSE IF Len(rest) < 5 \/ rest[5] /= SP THEN NotList
        ELSE IF verb /= W_LIST /\ verb /= W_LSUB THEN NotList
        ELSE ListFlags(From(rest, 6))

(***************************************************************************)
(* internal/config: the folder policy of an account                        *)
(***************************************************************************)
normalizeINBOX(s) ==
    IF Len(s) >= 5 /\ EqualFold(SubSeq(s, 1, 5), W_INBOX)
       /\ (Len(s) = 5 \/ s[6] = "/" \/ s[6] = ".")
    THEN W_INBOX \o From(s, 6)
    ELSE s

\* A folderMatch that knows no children
folderMatch_NoChildren(name, pattern) == normalizeINBOX(name) = normalizeINBOX(pattern)

folderMatch(name, pattern) ==
    LET n == normalizeINBOX(name)
        p == normalizeINBOX(pattern)
    IN  n = p \/ HasPrefix(n, p \o <<"/">>) \/ HasPrefix(n, p \o <<".">>)

matchesAny(name, entries) ==
    \E i \in 1..Len(entries) : folderMatch(name, entries[i])

HasFolderFilter(a) == Len(a.AllowedFolders) > 0 \/ Len(a.BlockedFolders) > 0

FolderAllowed(a, name) ==
    IF Len(a.AllowedFolders) > 0 THEN matchesAny(name, a.AllowedFolders)
    ELSE IF Len(a.BlockedFolders) > 0 THEN ~matchesAny(name, a.BlockedFolders)
    ELSE TRUE

FolderWritable(a, name) == matchesAny(name, a.WritableFolders)

\* The error Load returns for one decoded account, given the local users
\* of the accounts before it; "nil" when the account passes
AccountError_TLSUnchecked(acct, seen) ==
    IF acct.LocalUser \in seen THEN "duplicate"
    ELSE IF Len(acct.AllowedFolders) > 0 /\ Len(acct.BlockedFolders) > 0 THEN "folders"
    ELSE IF \E i \in 1..Len(acct.WritableFolders) :
                ~FolderAllowed(acct, acct.WritableFolders[i]) THEN "writable"
    ELSE "nil"

AccountError(acct, seen) ==
    IF acct.LocalUser \in seen THEN "duplicate"
    ELSE IF acct.RemoteTLS /\ acct.RemoteStartTLS THEN "tls"
    ELSE IF Len(acct.AllowedFolders) > 0 /\ Len(acct.BlockedFolders) > 0 THEN "folders"
    ELSE IF \E i \in 1..Len(acct.WritableFolders) :
                ~FolderAllowed(acct, acct.WritableFolders[i]) THEN "writable"
    ELSE "nil"

\* Load behind a successful toml.DecodeFile: the loop over cfg.Accounts from
\* account i on; the first error ends it
RECURSIVE LoadFrom(_, _, _)
LoadFrom(accounts, i, seen) ==
    IF i > Len(accounts) THEN "nil"
    ELSE IF AccountError(accounts[i], seen) /= "nil" THEN AccountError(accounts[i], seen)
    ELSE LoadFrom(accounts, i + 1, seen \cup {accounts[i].LocalUser})

Load(accounts) == LoadFrom(accounts, 1, {})

(***************************************************************************)
(* internal/proxy: argument parsing of the session                         *)
(***************************************************************************)
IsSpace(c) == c \in {SP, CR, LF, "\t"}

\* strings.TrimSpace
RECURSIVE TrimSpaceLeft(_)
TrimSpaceLeft(s) == IF Len(s) > 0 /\ IsSpace(s[1]) THEN TrimSpaceLeft(Tail(s)) ELSE s

RECURSIVE TrimSpaceRight(_)
TrimSpaceRight(s) ==
    IF Len(s) > 0 /\ IsSpace(s[Len(s)])
    THEN TrimSpaceRight(SubSeq(s, 1, Len(s) - 1))
    ELSE s

TrimSpace(s) == TrimSpaceRight(TrimSpaceLeft(s))

\* strings.SplitN(raw, " ", 3): the parts, at most three
SplitN3(raw) ==
    LET i == IndexByte(raw, SP)
        r == From(raw, i + 1)
        j == IndexByte(r, SP)
    IN  IF i = 0 THEN <<raw>>
        ELSE IF j = 0 THEN <<SubSeq(raw, 1, i - 1), r>>
        ELSE <<SubSeq(raw, 1, i - 1), SubSeq(r, 1, j - 1), From(r, j + 1)>>

\* parseOneArg: err is "nil", "unterminated" or, for the index s[0] of an
\* empty s, "panic" (a Go run-time panic: index out of range)
parseOneArg(s) ==
    LET idx == IndexByte(s, SP)
        q   == ScanQuoted(s, 2, <<>>)
    IN  IF Len(s) = 0 THEN [token |-> <<>>, rest |-> <<>>, err |-> "panic"]
        ELSE IF s[1] = DQ THEN
            IF q.closed
            THEN [token |-> q.value, rest |-> q.rest, err |-> "nil"]
            ELSE [token |-> <<>>, rest |-> <<>>, err |-> "unterminated"]
        ELSE IF idx = 0 THEN [token |-> s, rest |-> <<>>, err |-> "nil"]
        ELSE [token |-> SubSeq(s, 1, idx - 1), rest |-> From(s, idx + 1), err |-> "nil"]

LoginArgsError == [user |-> <<>>, pass |-> <<>>, err |-> "error"]

parseLoginArgs(args0) ==
    LET args == TrimSpace(args0)
        u    == parseOneArg(args)
        rest == TrimSpace(u.rest)
        p    == parseOneArg(rest)
    IN  IF args = <<>> THEN LoginArgsError
        ELSE IF u.err /= "nil" THEN LoginArgsError
        ELSE IF rest = <<>> THEN LoginArgsError
        ELSE IF p.err /= "nil" THEN LoginArgsError
        ELSE [user |-> u.token, pass |-> p.token, err |-> "nil"]

\* extractCommandMailbox: mailbox is empty when absent; panic tells that
\* parseOneArg was handed the empty string
extractCommandMailbox(cmd) ==
    LET parts == SplitN3(TrimRightCRLF(cmd.Raw))
        arg   == parseOneArg(parts[3])
    IN  IF Len(parts) < 3 THEN [mailbox |-> <<>>, panic |-> FALSE]
        ELSE IF arg.err = "panic" THEN [mailbox |-> <<>>, panic |-> TRUE]
        ELSE IF arg.err /= "nil" THEN [mailbox |-> <<>>, panic |-> FALSE]
        ELSE [mailbox |-> arg.token, panic |-> FALSE]

\* A folder gate that looks at SELECT only
folderBlocked_SelectOnly(a, cmd) ==
    LET mb == extractCommandMailbox(cmd)
    IN  IF ~HasFolderFilter(a) THEN "no"
        ELSE IF cmd.Verb /= W_SELECT THEN "no"
        ELSE IF mb.panic THEN "panic"
        ELSE IF mb.mailbox = <<>> THEN "no"
        ELSE IF FolderAllowed(a, mb.mailbox) THEN "no" ELSE "yes"

\* folderBlocked: "yes", "no", or "panic" when extractCommandMailbox panics
folderBlocked(a, cmd) ==
    LET mb == extractCommandMailbox(cmd)
    IN  IF ~HasFolderFilter(a) THEN "no"
        ELSE IF cmd.Verb \notin {W_SELECT, W_EXAMINE, W_STATUS} THEN "no"
        ELSE IF mb.panic THEN "panic"
        ELSE IF mb.mailbox = <<>> THEN "no"
        ELSE IF FolderAllowed(a, mb.mailbox) THEN "no" ELSE "yes"

extractTag(line0) ==
    LET line == TrimSpace(line0)
        idx  == IndexByte(line, SP)
    IN  IF idx > 1 THEN SubSeq(line, 1, idx - 1)
        ELSE IF line /= <<>> THEN line
        ELSE <<"*">>

(***************************************************************************)
(* internal/proxy: the upstream LOGIN                                      *)
(***************************************************************************)
\* strings.ReplaceAll(s, old, new) for a one-byte old
RECURSIVE ReplaceByte(_, _, _)
ReplaceByte(s, old, new) ==
    IF Len(s) = 0 THEN <<>>
    ELSE (IF s[1] = old THEN new ELSE <<s[1]>>) \o ReplaceByte(Tail(s), old, new)

quoteIMAPString(s) ==
    <<DQ>> \o ReplaceByte(ReplaceByte(s, BS, <<BS, BS>>), DQ, <<BS, DQ>>) \o <<DQ>>

\* The LOGIN line LoginUpstream writes
LoginLine(a) ==
    MsgProxyLogin \o quoteIMAPString(a.RemoteUser) \o <<SP>>
        \o quoteIMAPString(a.RemotePassword) \o CRLF

\* The first line of a byte stream, terminator included; empty when the
\* stream holds no LF
FirstLine(s) == SubSeq(s, 1, IndexByte(s, LF))

HasLine(s) == IndexByte(s, LF) > 0

\* LoginUpstream's read loop over the bytes the upstream answers with (the
\* stream ends where the bytes end): err is "nil" or "error", used counts the
\* bytes read up to the end of the tagged line
RECURSIVE LoginUpstreamRead(_, _)
LoginUpstreamRead(s, used) ==
    LET line == FirstLine(s)
    IN  IF ~HasLine(s) THEN [err |-> "error", used |-> used + Len(s)]
        ELSE IF HasPrefix(line, MsgProxyTag) THEN
            [err |-> IF Contains(line, MsgSpOK) THEN "nil" ELSE "error",
             used |-> used + Len(line)]
        ELSE LoginUpstreamRead(From(s, Len(line) + 1), used + Len(line))

(***************************************************************************)
(* internal/proxy: dialUpstream against one scripted server.  mode holds   *)
(* the account's RemoteTLS and RemoteStartTLS; srv tells whether the TCP   *)
(* dial, the write of the STARTTLS command and the TLS handshake succeed,  *)
(* and holds the bytes the server sends in the clear (plain) and inside    *)
(* TLS (tls).  steps lists the calls made, the failing one included; sent  *)
(* the writes on the connection; closed whether Close was called on it;    *)
(* rest what the returned reader holds behind the greeting.                *)
(***************************************************************************)
MsgStartTLS == <<"p", "r", "o", "x", "y", "0", SP, "S", "T", "A", "R", "T", "T", "L", "S", CR, LF>>
MsgStarOK == <<"*", SP, "O", "K">>
MsgStarPreauth == <<"*", SP, "P", "R", "E", "A", "U", "T", "H">>

DialFailed(steps, sent, closed, why) ==
    [err |-> why, steps |-> steps, sent |-> sent, closed |-> closed, rest |-> <<>>]

\* A greeting check that takes every line
GreetingOK_AnyLine(greeting) == TRUE

GreetingOK(greeting) ==
    HasPrefix(greeting, MsgStarOK) \/ HasPrefix(greeting, MsgStarPreauth)

\* The read and the validation of the (post-TLS) greeting line
ReadGreeting(steps, sent, stream) ==
    IF ~HasLine(stream)
    THEN DialFailed(steps \o <<"greeting">>, sent, TRUE, "read greeting")
    ELSE IF ~GreetingOK(FirstLine(stream))
    THEN DialFailed(steps \o <<"greeting">>, sent, TRUE, "unexpected greeting")
    ELSE [err |-> "nil", steps |-> steps \o <<"greeting">>, sent |-> sent,
          closed |-> FALSE, rest |-> From(stream, Len(FirstLine(stream)) + 1)]

dialStartTLS(srv) ==
    LET resp == From(srv.plain, Len(FirstLine(srv.plain)) + 1)
    IN  IF ~srv.dial THEN DialFailed(<<"dial">>, <<>>, FALSE, "dial")
        ELSE IF ~HasLine(srv.plain)
        THEN DialFailed(<<"dial", "plaingreeting">>, <<>>, TRUE, "starttls: read greeting")
        ELSE IF ~srv.writeOK
        THEN DialFailed(<<"dial", "plaingreeting", "starttls">>, <<>>, TRUE,
                        "starttls: send command")
        ELSE IF ~HasLine(resp)
        THEN DialFailed(<<"dial", "plaingreeting", "starttls", "response">>,
                        <<MsgStartTLS>>, TRUE, "starttls: read response")
        ELSE IF ~Contains(FirstLine(resp), MsgSpOK)
        THEN DialFailed(<<"dial", "plaingreeting", "starttls", "response">>,
                        <<MsgStartTLS>>, TRUE, "starttls: server rejected")
        ELSE IF ~srv.handshake
        THEN DialFailed(<<"dial", "plaingreeting", "starttls", "response", "handshake">>,
                        <<MsgStartTLS>>, TRUE, "starttls: tls handshake")
        ELSE ReadGreeting(<<"dial", "plaingreeting", "starttls", "response", "handshake">>,
                          <<MsgStartTLS>>, srv.tls)

dialUpstream(mode, srv) ==
    IF mode.RemoteTLS THEN
        IF ~(srv.dial /\ srv.handshake) THEN DialFailed(<<"tlsdial">>, <<>>, FALSE, "tls dial")
        ELSE ReadGreeting(<<"tlsdial">>, <<>>, srv.tls)
    ELSE IF mode.RemoteStartTLS THEN dialStartTLS(srv)
    ELSE IF ~srv.dial THEN DialFailed(<<"dial">>, <<>>, FALSE, "dial")
         ELSE ReadGreeting(<<"dial">>, <<>>, srv.plain)

\* handleLogin from its dial on: wire is what was written on the upstream
\* connection, reply what follows the client's tag in the answer
DialAndLogin(acct, mode, srv) ==
    LET d == dialUpstream(mode, srv)
        l == LoginUpstreamRead(d.rest, 0)
    IN  IF d.err /= "nil"
        THEN [dial |-> d, wire |-> d.sent, reply |-> MsgNOLogin, closed |-> d.closed,
              auth |-> FALSE]
        ELSE [dial |-> d, wire |-> d.sent \o <<LoginLine(acct)>>,
              reply |-> IF l.err = "nil" THEN MsgOKLogin ELSE MsgNOLogin,
              closed |-> l.err /= "nil", auth |-> l.err = "nil"]

(***************************************************************************)
(* Letter cases of the inputs                                              *)
(***************************************************************************)
NoResult == [none |-> TRUE]

LowerByte(c) ==
    IF \E i \in 1..26 : UpperBytes[i] = c
    THEN LowerBytes[CHOOSE i \in 1..26 : UpperBytes[i] = c]
    ELSE c

ToLower(s) == [i \in 1..Len(s) |-> LowerByte(s[i])]

\* Lower case at the odd positions, as in sElEcT
MixedCase(s) == [i \in 1..Len(s) |-> IF i % 2 = 1 THEN LowerByte(s[i]) ELSE s[i]]

(***************************************************************************)
(* The configuration the sessions run against: four accounts, one per      *)
(* folder policy (internal/config: Config, AccountConfig)                  *)
(***************************************************************************)
F_Trash  == <<"T", "r", "a", "s", "h">>
F_Drafts == <<"D", "r", "a", "f", "t", "s">>

AccountConfig(user, pass, allowed, blocked, writable) ==
    [LocalUser |-> user, LocalPassword |-> pass,
     RemoteUser |-> <<"u">> \o user, RemotePassword |-> <<"s", DQ, BS>>,
     AllowedFolders |-> allowed, BlockedFolders |-> blocked,
     WritableFolders |-> writable]

Accounts ==
    <<AccountConfig(<<"r", "1">>, <<"p", "1">>, <<>>, <<>>, <<>>),
      AccountConfig(<<"r", "2">>, <<"p", "2">>, <<W_INBOX>>, <<>>, <<>>),
      AccountConfig(<<"r", "3">>, <<"p", "3">>, <<>>, <<F_Trash>>, <<>>),
      AccountConfig(<<"r", "4">>, <<"p", "4">>, <<>>, <<>>, <<F_Drafts>>)>>

NoAccount == 0

\* Config.LookupUser: the index of the first account of that name, or nil
LookupUser(username) ==
    IF \E i \in 1..Len(Accounts) : Accounts[i].LocalUser = username
    THEN CHOOSE i \in 1..Len(Accounts) :
            /\ Accounts[i].LocalUser = username
            /\ \A j \in 1..(i - 1) : Accounts[j].LocalUser /= username
    ELSE NoAccount

(***************************************************************************)
(* Bounds of the environment                                               *)
(***************************************************************************)
\* Chunks and closes the client and the upstream produce in one session
MaxEvents == 3
\* Chunks the client sends before it is authenticated
MaxPreAuth == 2

(***************************************************************************)
(* The streams of a session                                                *)
(***************************************************************************)
\* Bytes the client has sent and the proxy has not read yet (clientR)
cin == From(csent, cpos + 1)
\* Bytes the upstream has sent and the proxy has not read yet (upstreamR)
uin == From(usent, upos + 1)

RECURSIVE Flatten(_)
Flatten(ws) == IF Len(ws) = 0 THEN <<>> ELSE Head(ws).data \o Flatten(Tail(ws))

\* A write on a connection fails once this side has closed it, and may fail
\* once the peer has closed its end
ClientWriteOutcomes ==
    IF clientCloses > 0 THEN {FALSE} ELSE IF clientEOF THEN {TRUE, FALSE} ELSE {TRUE}

UpstreamWriteOutcomes ==
    IF upstreamCloses > 0 THEN {FALSE} ELSE IF upEOF THEN {TRUE, FALSE} ELSE {TRUE}

\* cout after the writes ws (a sequence of byte strings) by goroutine g
WriteClient(g, ws, ok) ==
    IF ok THEN cout \o [i \in 1..Len(ws) |-> [by |-> g, data |-> ws[i]]] ELSE cout

\* uout after one write of data on the session's upstream connection; kind
\* only records what the write was: "login", "cmd" (a command line forwarded
\* by the policy), "raw" (an unparseable line), "idle" (IDLE and the lines
\* of the IDLE exchange), "cont" (a line that follows a literal), "lit"
WriteUpstream(kind, data, ok) ==
    IF ok THEN Append(uout, [conn |-> dials, kind |-> kind, data |-> data]) ELSE uout

\* cur: the client line the main goroutine handles or has handled last, where
\* it starts in csent, what was decided, and how much had been written when
\* it was read.  login: the last LOGIN handled.  Both only record.
NoCur == [start |-> 0, raw |-> <<>>, act |-> "none", uoutLen |-> 0, coutLen |-> 0]

NoLogin == [raw |-> <<>>, dial |-> "none", verdict |-> "none", reply |-> "none"]

sessVars == <<state, account, upstreamConn>>
clientIn == <<csent, cpos, clientEOF>>
upIn     == <<usent, upos, upEOF>>
outs     == <<cout, uout>>
ctl      == <<pcC, pcU, litC, litU>>
closes   == <<onceDone, clientCloses, upstreamCloses>>
dialVars == <<dials, abandoned>>
budget   == <<nEvents, nPre>>
ghosts   == <<cur, login>>
vars     == <<sessVars, clientIn, upIn, outs, ctl, closes, dialVars, budget, ghosts, pvars, srvVars>>

\* NewSession, before Run
SessionInit ==
    /\ state = "Greeting"
    /\ account = NoAccount
    /\ upstreamConn = "nil"
    /\ csent = <<>> /\ cpos = 0 /\ clientEOF = FALSE
    /\ usent = <<>> /\ upos = 0 /\ upEOF = FALSE
    /\ cout = <<>> /\ uout = <<>>
    /\ pcC = "greeting" /\ pcU = "none"
    /\ litC = 0 /\ litU = [n |-> 0, filtered |-> FALSE]
    /\ onceDone = FALSE /\ clientCloses = 0 /\ upstreamCloses = 0
    /\ dials = 0 /\ abandoned = 0
    /\ nEvents = 0 /\ nPre = 0
    /\ cur = NoCur /\ login = NoLogin

Init ==
    /\ SessionInit
    /\ ServerInit
    /\ pfn = "none" /\ pin = <<>> /\ pout = NoResult

(***************************************************************************)
(* The environment: the client and the upstream server                     *)
(***************************************************************************)
Line(tag, words) == tag \o <<SP>> \o words \o CRLF

T_a == <<"a">>
T_b == <<"b", "7">>

LoginOf(i) == Accounts[i].LocalUser \o <<SP>> \o Accounts[i].LocalPassword

PreAuthChunks ==
    {Line(T_a, W_LOGIN \o <<SP>> \o LoginOf(i)) : i \in {1, 3, 4}} \cup
    {Line(T_a, ToLower(W_LOGIN) \o <<SP, DQ, "r", "2", DQ, SP, DQ, "p", "2", DQ>>),
     Line(T_a, W_LOGIN \o <<SP, "r", "1", SP, "p", "2">>),
     Line(T_a, W_LOGIN \o <<SP, "z", "z", SP, "p", "1">>),
     Line(T_a, W_LOGIN \o <<SP, "r", "1">>),
     Line(T_a, W_LOGIN \o <<SP, DQ, "r", "1", SP, "p", "1">>),
     Line(T_a, W_CAPABILITY),
     Line(T_a, ToLower(W_NOOP)),
     Line(T_a, W_LOGOUT),
     Line(T_a, W_FETCH \o <<SP, "1">>),
     <<"z", "z">> \o CRLF,
     CRLF}

ClientSendPre ==
    /\ pcC \in {"greeting", "preauth"}
    /\ ~clientEOF /\ clientCloses = 0
    /\ nEvents < MaxEvents /\ nPre < MaxPreAuth
    /\ \E chunk \in PreAuthChunks : csent' = csent \o chunk
    /\ nEvents' = nEvents + 1 /\ nPre' = nPre + 1
    /\ UNCHANGED <<sessVars, cpos, clientEOF, upIn, outs, ctl, closes, dialVars,
                   ghosts, pvars, srvVars>>

ClientClose ==
    /\ ~clientEOF /\ clientCloses = 0
    /\ pcC \notin {"done", "panic"}
    /\ nEvents < MaxEvents
    /\ clientEOF' = TRUE
    /\ nEvents' = nEvents + 1
    /\ UNCHANGED <<sessVars, csent, cpos, upIn, outs, ctl, closes, dialVars, nPre,
                   ghosts, pvars, srvVars>>

(***************************************************************************)
(* Session.Run: the greeting and the pre-auth loop                         *)
(***************************************************************************)
\* Run returns: the deferred s.clientConn.Close() runs
Greet_Twice ==
    /\ pcC = "greeting"
    /\ \E ok \in ClientWriteOutcomes :
        /\ cout' = WriteClient("main", <<MsgGreeting, MsgGreeting>>, ok)
        /\ IF ok
           THEN /\ state' = "NotAuth" /\ pcC' = "preauth"
                /\ UNCHANGED clientCloses
           ELSE /\ pcC' = "done" /\ clientCloses' = clientCloses + 1
                /\ UNCHANGED state
    /\ UNCHANGED <<account, upstreamConn, clientIn, upIn, uout, pcU, litC, litU,
                   onceDone, upstreamCloses, dialVars, budget, ghosts, pvars, srvVars>>

Greet ==
    /\ pcC = "greeting"
    /\ \E ok \in ClientWriteOutcomes :
        /\ cout' = WriteClient("main", <<MsgGreeting>>, ok)
        /\ IF ok
           THEN /\ state' = "NotAuth" /\ pcC' = "preauth"
                /\ UNCHANGED clientCloses
           ELSE /\ pcC' = "done" /\ clientCloses' = clientCloses + 1
                /\ UNCHANGED state
    /\ UNCHANGED <<account, upstreamConn, clientIn, upIn, uout, pcU, litC, litU,
                   onceDone, upstreamCloses, dialVars, budget, ghosts, pvars, srvVars>>

PreAuthReadErr ==
    /\ pcC = "preauth"
    /\ ~HasLine(cin) /\ clientEOF
    /\ cpos' = Len(csent)
    /\ cur' = [start |-> cpos, raw |-> <<>>, act |-> "ReadErr",
               uoutLen |-> Len(uout), coutLen |-> Len(cout)]
    /\ pcC' = "done" /\ clientCloses' = clientCloses + 1
    /\ UNCHANGED <<sessVars, csent, clientEOF, upIn, outs, pcU, litC, litU, onceDone,
                   upstreamCloses, dialVars, budget, login, pvars, srvVars>>

\* One turn of the pre-auth loop that answers the line locally with the
\* writes ws and stays in the loop (exit = FALSE) or returns (exit = TRUE)
PreAuthAnswer(line, act, ws, exit) ==
    /\ \E ok \in ClientWriteOutcomes : cout' = WriteClient("main", ws, ok)
    /\ cpos' = cpos + Len(line)
    /\ cur' = [start |-> cpos, raw |-> line, act |-> act,
               uoutLen |-> Len(uout), coutLen |-> Len(cout)]
    /\ IF exit
       THEN pcC' = "done" /\ clientCloses' = clientCloses + 1
       ELSE UNCHANGED <<pcC, clientCloses>>
    /\ UNCHANGED <<sessVars, csent, clientEOF, upIn, uout, pcU, litC, litU, onceDone,
                   upstreamCloses, dialVars, budget, login, pvars, srvVars>>

PreAuthBad ==
    /\ pcC = "preauth" /\ HasLine(cin)
    /\ ParseCommand(FirstLine(cin)).err /= "nil"
    /\ PreAuthAnswer(FirstLine(cin), "BAD",
                     <<extractTag(FirstLine(cin)) \o MsgBadCommand>>, FALSE)

PreAuthCapability ==
    /\ pcC = "preauth" /\ HasLine(cin)
    /\ LET cmd == ParseCommand(FirstLine(cin))
       IN  /\ cmd.err = "nil" /\ cmd.Verb = W_CAPABILITY
           /\ PreAuthAnswer(cmd.Raw, "CAPABILITY",
                            <<MsgCapability, cmd.Tag \o MsgOKCapability>>, FALSE)

PreAuthNoop ==
    /\ pcC = "preauth" /\ HasLine(cin)
    /\ LET cmd == ParseCommand(FirstLine(cin))
       IN  /\ cmd.err = "nil" /\ cmd.Verb = W_NOOP
           /\ PreAuthAnswer(cmd.Raw, "NOOP", <<cmd.Tag \o MsgOKNoop>>, FALSE)

PreAuthLogout ==
    /\ pcC = "preauth" /\ HasLine(cin)
    /\ LET cmd == ParseCommand(FirstLine(cin))
       IN  /\ cmd.err = "nil" /\ cmd.Verb = W_LOGOUT
           /\ PreAuthAnswer(cmd.Raw, "LOGOUT", <<MsgBye, cmd.Tag \o MsgOKLogout>>, TRUE)

\* A default case that returns from Run behind its BAD line
PreAuthOther_Returns ==
    /\ pcC = "preauth" /\ HasLine(cin)
    /\ LET cmd == ParseCommand(FirstLine(cin))
       IN  /\ cmd.err = "nil"
           /\ cmd.Verb \notin {W_CAPABILITY, W_NOOP, W_LOGOUT, W_LOGIN}
           /\ PreAuthAnswer(cmd.Raw, "OTHER", <<cmd.Tag \o MsgBadCommand>>, TRUE)

PreAuthOther ==
    /\ pcC = "preauth" /\ HasLine(cin)
    /\ LET cmd == ParseCommand(FirstLine(cin))
       IN  /\ cmd.err = "nil"
           /\ cmd.Verb \notin {W_CAPABILITY, W_NOOP, W_LOGOUT, W_LOGIN}
           /\ PreAuthAnswer(cmd.Raw, "OTHER", <<cmd.Tag \o MsgBadCommand>>, FALSE)

(***************************************************************************)
(* Session.handleLogin                                                     *)
(***************************************************************************)
\* A handleLogin that does not compare the password
LoginAccount_AnyPassword(cmd) ==
    LET parts == SplitN3(TrimRightCRLF(cmd.Raw))
        args  == parseLoginArgs(parts[3])
    IN  IF Len(parts) < 3 THEN NoAccount
        ELSE IF args.err /= "nil" THEN NoAccount
        ELSE LookupUser(args.user)

\* The local part of handleLogin, up to the password comparison: the account
\* the upstream is dialed for, or NoAccount when the LOGIN is refused locally
LoginAccount(cmd) ==
    LET parts == SplitN3(TrimRightCRLF(cmd.Raw))
        args  == parseLoginArgs(parts[3])
        acct  == LookupUser(args.user)
    IN  IF Len(parts) < 3 THEN NoAccount
        ELSE IF args.err /= "nil" THEN NoAccount
        ELSE IF acct = NoAccount THEN NoAccount
        ELSE IF Accounts[acct].LocalPassword /= args.pass THEN NoAccount
        ELSE acct

\* What the upstream answers to the proxy's LOGIN line, up to where it stops
LoginReplies ==
    {<<"p", "r", "o", "x", "y", "0", SP, "O", "K", SP, "d", "o", "n", "e", CR, LF>>,
     <<"*", SP, "O", "K", SP, "h", "i", CR, LF,
       "p", "r", "o", "x", "y", "0", SP, "O", "K", CR, LF>>,
     <<"p", "r", "o", "x", "y", "0", SP, "N", "O", SP, "b", "a", "d", CR, LF>>,
     <<"*", SP, "B", "Y", "E", CR, LF>>}

\* A failure path that answers nothing
LoginFailed_NoReply(cmd, dial, verdict) ==
    /\ cout' = cout
    /\ cpos' = cpos + Len(cmd.Raw)
    /\ cur' = [start |-> cpos, raw |-> cmd.Raw, act |-> "LOGIN",
               uoutLen |-> Len(uout), coutLen |-> Len(cout)]
    /\ login' = [raw |-> cmd.Raw, dial |-> dial, verdict |-> verdict, reply |-> "NO"]
    /\ UNCHANGED <<sessVars, csent, clientEOF, upIn, pcC, pcU, litC, litU, closes,
                   budget, pvars, srvVars>>

\* handleLogin fails: one NO LOGIN failed, the session stays NotAuthenticated
LoginFailed(cmd, dial, verdict) ==
    /\ \E ok \in ClientWriteOutcomes :
            cout' = WriteClient("main", <<cmd.Tag \o MsgNOLogin>>, ok)
    /\ cpos' = cpos + Len(cmd.Raw)
    /\ cur' = [start |-> cpos, raw |-> cmd.Raw, act |-> "LOGIN",
               uoutLen |-> Len(uout), coutLen |-> Len(cout)]
    /\ login' = [raw |-> cmd.Raw, dial |-> dial, verdict |-> verdict, reply |-> "NO"]
    /\ UNCHANGED <<sessVars, csent, clientEOF, upIn, pcC, pcU, litC, litU, closes,
                   budget, pvars, srvVars>>

\* Refused before any dial
LoginRefused ==
    /\ pcC = "preauth" /\ HasLine(cin)
    /\ LET cmd == ParseCommand(FirstLine(cin))
       IN  /\ cmd.err = "nil" /\ cmd.Verb = W_LOGIN
           /\ LoginAccount(cmd) = NoAccount
           /\ LoginFailed(cmd, "none", "none")
           /\ UNCHANGED <<uout, dialVars>>

\* s.dialUpstream returns an error
LoginDialFailed ==
    /\ pcC = "preauth" /\ HasLine(cin)
    /\ LET cmd == ParseCommand(FirstLine(cin))
       IN  /\ cmd.err = "nil" /\ cmd.Verb = W_LOGIN
           /\ LoginAccount(cmd) /= NoAccount
           /\ LoginFailed(cmd, "err", "none")
           /\ UNCHANGED <<uout, dialVars>>

\* A handleLogin that leaves the connection open when LoginUpstream fails
LoginUpstreamFailed_NoClose ==
    /\ pcC = "preauth" /\ HasLine(cin)
    /\ LET cmd == ParseCommand(FirstLine(cin))
       IN  /\ cmd.err = "nil" /\ cmd.Verb = W_LOGIN
           /\ LoginAccount(cmd) /= NoAccount
           /\ \E reply \in LoginReplies :
                /\ LoginUpstreamRead(reply, 0).err /= "nil"
                /\ LoginFailed(cmd, "ok", "err")
           /\ dials' = dials + 1
           /\ UNCHANGED abandoned
           /\ uout' = Append(uout, [conn |-> dials + 1, kind |-> "login",
                                    data |-> LoginLine(Accounts[LoginAccount(cmd)])])

\* The dial succeeds and LoginUpstream returns an error: conn.Close()
LoginUpstreamFailed ==
    /\ pcC = "preauth" /\ HasLine(cin)
    /\ LET cmd == ParseCommand(FirstLine(cin))
       IN  /\ cmd.err = "nil" /\ cmd.Verb = W_LOGIN
           /\ LoginAccount(cmd) /= NoAccount
           /\ \E reply \in LoginReplies :
                /\ LoginUpstreamRead(reply, 0).err /= "nil"
                /\ LoginFailed(cmd, "ok", "err")
           /\ dials' = dials + 1
           /\ abandoned' = abandoned + 1
           /\ uout' = Append(uout, [conn |-> dials + 1, kind |-> "login",
                                    data |-> LoginLine(Accounts[LoginAccount(cmd)])])

\* Full success: the upstream is retained, the account bound, the state Auth;
\* Run leaves the pre-auth loop and runPostAuth starts the upstream->client
\* goroutine
LoginSucceeded ==
    /\ pcC = "preauth" /\ HasLine(cin)
    /\ LET cmd == ParseCommand(FirstLine(cin))
       IN  /\ cmd.err = "nil" /\ cmd.Verb = W_LOGIN
           /\ LoginAccount(cmd) /= NoAccount
           /\ \E reply \in LoginReplies : LoginUpstreamRead(reply, 0).err = "nil"
           /\ dials' = dials + 1
           /\ uout' = Append(uout, [conn |-> dials + 1, kind |-> "login",
                                    data |-> LoginLine(Accounts[LoginAccount(cmd)])])
           /\ upstreamConn' = "conn"
           /\ account' = LoginAccount(cmd)
           /\ state' = "Auth"
           /\ \E ok \in ClientWriteOutcomes :
                cout' = WriteClient("main", <<cmd.Tag \o MsgOKLogin>>, ok)
           /\ cpos' = cpos + Len(cmd.Raw)
           /\ cur' = [start |-> cpos, raw |-> cmd.Raw, act |-> "LOGIN",
                      uoutLen |-> Len(uout), coutLen |-> Len(cout)]
           /\ login' = [raw |-> cmd.Raw, dial |-> "ok", verdict |-> "ok", reply |-> "OK"]
           /\ pcC' = "c2u" /\ pcU' = "read"
           /\ UNCHANGED <<csent, clientEOF, upIn, litC, litU, closes, abandoned,
                          budget, pvars, srvVars>>

(***************************************************************************)
(* The environment after authentication                                    *)
(***************************************************************************)
L_abc == <<"a", "b", "c">> \o CRLF

\* What the client of each account sends
PostChunks(a) ==
    IF a = 1 THEN
        {Line(T_b, W_APPEND \o <<SP>> \o W_INBOX \o <<SP, "{", "3", "+", "}">>),
         Line(T_b, W_APPEND \o <<SP>> \o W_INBOX \o <<SP, "{", "3", "}">>),
         Line(T_b, MixedCase(W_SELECT) \o <<SP>> \o W_INBOX),
         Line(T_b, W_SEARCH \o <<SP, "{", "3", "}">>),
         Line(T_b, W_IDLE),
         W_DONE \o CRLF,
         Line(T_b, W_LOGOUT),
         L_abc,
         <<"a", "b", "c", SP, "{", "3", "}">> \o CRLF \o L_abc,
         <<"a", "b", "c">> \o Line(T_b, W_STORE \o <<SP, "1">>),
         Line(T_b, W_SELECT \o <<SP, "{", "3", "}">>),
         Line(T_b, W_IDLE) \o Line(T_b, W_STORE \o <<SP, "1">>)
            \o MixedCase(W_DONE) \o CRLF \o Line(T_b, W_STORE \o <<SP, "1">>)}
    ELSE IF a = 2 THEN
        {Line(T_b, W_SELECT \o <<SP>> \o ToLower(W_INBOX)),
         Line(T_b, W_SELECT \o <<SP>> \o F_Trash),
         Line(T_b, W_EXAMINE \o <<SP, DQ>> \o F_Trash \o <<DQ>>),
         Line(T_b, W_STATUS \o <<SP>> \o F_Trash \o <<SP, "(", "U", ")">>),
         Line(T_b, W_SELECT \o <<SP>>)}
    ELSE IF a = 3 THEN
        {Line(T_b, W_SELECT \o <<SP>> \o F_Trash),
         Line(T_b, W_EXAMINE \o <<SP>> \o F_Trash \o <<".", "x">>),
         Line(T_b, W_STATUS \o <<SP, DQ>> \o F_Trash \o <<DQ, SP, "(", "U", ")">>),
         Line(T_b, W_STATUS \o <<SP>> \o W_INBOX \o <<SP, "(", "U", ")">>),
         Line(T_b, W_STORE \o <<SP, "1">>),
         CRLF \o T_b \o <<SP>> \o CRLF \o <<SP, "x">> \o CRLF \o L_abc,
         Line(T_b, W_SELECT \o <<SP, "{", "5", "}">>) \o F_Trash \o CRLF,
         Line(T_b, W_STORE \o <<SP, "1">>) \o Line(T_b, W_SELECT \o <<SP>> \o F_Trash)
            \o Line(T_b, W_STATUS \o <<SP>> \o W_INBOX \o <<SP, "(", "U", ")">>)}
    ELSE
        {Line(T_b, W_SELECT \o <<SP>> \o F_Drafts),
         Line(T_b, W_SELECT \o <<SP>> \o W_INBOX),
         Line(T_b, W_STORE \o <<SP, "1">>),
         Line(T_b, W_UID \o <<SP>> \o W_STORE \o <<SP, "1">>),
         Line(T_b, W_APPEND \o <<SP>> \o F_Drafts \o <<SP, "{", "3", "+", "}">>),
         L_abc,
         Line(T_b, W_SELECT \o <<SP>> \o F_Drafts) \o Line(T_b, W_SELECT \o <<SP>> \o W_INBOX),
         Line(T_b, W_COPY \o <<SP, "1", SP>> \o F_Drafts),
         Line(T_b, W_UID \o <<SP>> \o W_MOVE \o <<SP, "1", SP>> \o F_Drafts)
            \o Line(T_b, W_DELETE \o <<SP>> \o F_Drafts)}

ListLine(verb, mailbox) ==
    <<"*", SP>> \o verb \o <<SP, "(", ")", SP, DQ, "/", DQ, SP>> \o mailbox \o CRLF

\* What the upstream of each account sends; one chunk is a line cut short
UpstreamChunks(a) ==
    IF a = 1 THEN
        {Line(T_b, <<"O", "K">>),
         Line(<<"*">>, <<"1", SP>> \o W_FETCH \o <<SP, "{", "3", "}">>),
         Line(<<"*">>, <<"1", SP>> \o W_FETCH \o <<SP, "{", "3", "}">>) \o L_abc,
         Line(<<"*">>, <<"1", SP>> \o W_FETCH \o <<SP, "{", "5", "}">>)
            \o <<"{", "9", "}">> \o CRLF,
         L_abc,
         <<"*", SP, "x">>}
    ELSE IF a = 2 THEN
        {ListLine(W_LIST, <<DQ>> \o W_INBOX \o <<DQ>>),
         ListLine(W_LIST, <<DQ>> \o F_Trash \o <<DQ>>),
         ListLine(W_LIST, <<"{", "3", "}">>),
         L_abc}
    ELSE IF a = 3 THEN
        {ListLine(ToLower(W_LSUB), F_Trash \o <<"/", "x">>),
         ListLine(W_LIST, <<DQ>> \o W_INBOX \o <<DQ>>),
         Line(T_b, <<"O", "K">>)}
    ELSE
        {Line(T_b, <<"O", "K">>),
         Line(T_b, <<"N", "O">>)}

ClientSendPost ==
    /\ state = "Auth" /\ pcC \notin {"done", "panic"}
    /\ ~clientEOF /\ clientCloses = 0
    /\ nEvents < MaxEvents
    /\ \E chunk \in PostChunks(account) : csent' = csent \o chunk
    /\ nEvents' = nEvents + 1
    /\ UNCHANGED <<sessVars, cpos, clientEOF, upIn, outs, ctl, closes, dialVars, nPre,
                   ghosts, pvars, srvVars>>

UpstreamSend ==
    /\ state = "Auth" /\ pcC \notin {"done", "panic"}
    /\ ~upEOF /\ upstreamCloses = 0
    /\ nEvents < MaxEvents
    /\ \E chunk \in UpstreamChunks(account) : usent' = usent \o chunk
    /\ nEvents' = nEvents + 1
    /\ UNCHANGED <<sessVars, clientIn, upos, upEOF, outs, ctl, closes, dialVars, nPre,
                   ghosts, pvars, srvVars>>

UpstreamClose ==
    /\ state = "Auth" /\ pcC \notin {"done", "panic"}
    /\ ~upEOF /\ upstreamCloses = 0
    /\ nEvents < MaxEvents
    /\ upEOF' = TRUE
    /\ nEvents' = nEvents + 1
    /\ UNCHANGED <<sessVars, clientIn, usent, upos, outs, ctl, closes, dialVars, nPre,
                   ghosts, pvars, srvVars>>

(***************************************************************************)
(* Session.clientToUpstream: the command loop of the main goroutine        *)
(***************************************************************************)
\* A read on clientR fails: the client has ended the stream and no whole
\* line is left, or this side has closed the connection
ClientReadFails == clientCloses > 0 \/ (clientEOF /\ ~HasLine(cin))

\* The command loop has read the line at the head of cin
C2ULine == pcC = "c2u" /\ HasLine(cin)

Handled(line, act) ==
    [start |-> cpos, raw |-> line, act |-> act,
     uoutLen |-> Len(uout), coutLen |-> Len(cout)]

\* forwardWithLiterals up to its first blocking call: the line is written,
\* and a declared literal is copied next
Forward(kind, line) ==
    \E ok \in UpstreamWriteOutcomes :
        /\ uout' = WriteUpstream(kind, line, ok)
        /\ IF ~ok THEN pcC' = "cleanup" /\ UNCHANGED litC
           ELSE IF ParseLiteral(line).ok
                THEN pcC' = "copylit" /\ litC' = ParseLiteral(line).n
                ELSE pcC' = "c2u" /\ UNCHANGED litC

\* clientToUpstream, forwardWithLiterals or handleIdle return on a read error
C2UReadErr ==
    /\ pcC \in {"c2u", "nextline", "idle"}
    /\ ClientReadFails
    /\ cpos' = IF clientEOF /\ ~HasLine(cin) THEN Len(csent) ELSE cpos
    /\ cur' = IF pcC = "c2u" THEN Handled(<<>>, "ReadErr") ELSE cur
    /\ pcC' = "cleanup"
    /\ UNCHANGED <<sessVars, csent, clientEOF, upIn, outs, pcU, litC, litU, closes,
                   dialVars, budget, login, pvars, srvVars>>

\* A command loop that answers an unparseable line the way the pre-auth
\* loop does
C2UUnparseable_Answered ==
    /\ C2ULine
    /\ ParseCommand(FirstLine(cin)).err /= "nil"
    /\ \E ok \in ClientWriteOutcomes :
        cout' = WriteClient("main", <<extractTag(FirstLine(cin)) \o MsgBadCommand>>, ok)
    /\ cpos' = cpos + Len(FirstLine(cin))
    /\ cur' = Handled(FirstLine(cin), "Unparsed")
    /\ UNCHANGED <<sessVars, csent, clientEOF, upIn, uout, pcC, pcU, litC, litU, closes,
                   dialVars, budget, login, pvars, srvVars>>

C2UUnparseable ==
    /\ C2ULine
    /\ ParseCommand(FirstLine(cin)).err /= "nil"
    /\ \E ok \in UpstreamWriteOutcomes :
        /\ uout' = WriteUpstream("raw", FirstLine(cin), ok)
        /\ pcC' = IF ok THEN "c2u" ELSE "cleanup"
    /\ cpos' = cpos + Len(FirstLine(cin))
    /\ cur' = Handled(FirstLine(cin), "Unparsed")
    /\ UNCHANGED <<sessVars, csent, clientEOF, upIn, cout, pcU, litC, litU, closes,
                   dialVars, budget, login, pvars, srvVars>>

\* handleIdle: the IDLE line is forwarded
C2UIdle ==
    /\ C2ULine
    /\ LET cmd == ParseCommand(FirstLine(cin))
       IN  /\ cmd.err = "nil" /\ cmd.Verb = W_IDLE
           /\ \E ok \in UpstreamWriteOutcomes :
                /\ uout' = WriteUpstream("idle", cmd.Raw, ok)
                /\ pcC' = IF ok THEN "idle" ELSE "cleanup"
           /\ cpos' = cpos + Len(cmd.Raw)
           /\ cur' = Handled(cmd.Raw, "IDLE")
    /\ UNCHANGED <<sessVars, csent, clientEOF, upIn, cout, pcU, litC, litU, closes,
                   dialVars, budget, login, pvars, srvVars>>

\* A handleIdle that ends the exchange only on DONE in capitals
IdleLine_ExactDone ==
    /\ pcC = "idle" /\ HasLine(cin)
    /\ \E ok \in UpstreamWriteOutcomes :
        /\ uout' = WriteUpstream("idle", FirstLine(cin), ok)
        /\ pcC' = IF ~ok THEN "cleanup"
                  ELSE IF TrimRightCRLF(FirstLine(cin)) = W_DONE THEN "c2u"
                  ELSE "idle"
    /\ cpos' = cpos + Len(FirstLine(cin))
    /\ UNCHANGED <<sessVars, csent, clientEOF, upIn, cout, pcU, litC, litU, closes,
                   dialVars, budget, ghosts, pvars, srvVars>>

\* handleIdle: every following line is forwarded, up to and including DONE
IdleLine ==
    /\ pcC = "idle" /\ HasLine(cin)
    /\ \E ok \in UpstreamWriteOutcomes :
        /\ uout' = WriteUpstream("idle", FirstLine(cin), ok)
        /\ pcC' = IF ~ok THEN "cleanup"
                  ELSE IF EqualFold(TrimRightCRLF(FirstLine(cin)), W_DONE) THEN "c2u"
                  ELSE "idle"
    /\ cpos' = cpos + Len(FirstLine(cin))
    /\ UNCHANGED <<sessVars, csent, clientEOF, upIn, cout, pcU, litC, litU, closes,
                   dialVars, budget, ghosts, pvars, srvVars>>

C2ULogout ==
    /\ C2ULine
    /\ LET cmd == ParseCommand(FirstLine(cin))
       IN  /\ cmd.err = "nil" /\ cmd.Verb = W_LOGOUT
           /\ \E ok \in ClientWriteOutcomes :
                cout' = WriteClient("main", <<MsgBye, cmd.Tag \o MsgOKLogout>>, ok)
           /\ cpos' = cpos + Len(cmd.Raw)
           /\ cur' = Handled(cmd.Raw, "LOGOUT")
    /\ pcC' = "cleanup"
    /\ UNCHANGED <<sessVars, csent, clientEOF, upIn, uout, pcU, litC, litU, closes,
                   dialVars, budget, login, pvars, srvVars>>

\* A command the loop hands to Filter
Filtered(cmd) == cmd.err = "nil" /\ cmd.Verb \notin {W_IDLE, W_LOGOUT}

\* The folder gate of the Allow and Rewrite cases; line is what is forwarded
Gate(cmd, act, line) ==
    LET fb == folderBlocked(Accounts[account], cmd)
    IN  /\ cpos' = cpos + Len(cmd.Raw)
        /\ IF fb = "panic" THEN
                /\ cur' = Handled(cmd.Raw, "Panic")
                /\ pcC' = "panic"
                /\ UNCHANGED <<cout, uout, litC>>
           ELSE IF fb = "yes" THEN
                /\ cur' = Handled(cmd.Raw, "FolderNO")
                /\ \E ok \in ClientWriteOutcomes :
                        cout' = WriteClient("main", <<cmd.Tag \o MsgNOFolder>>, ok)
                /\ UNCHANGED <<uout, pcC, litC>>
           ELSE /\ cur' = Handled(cmd.Raw, act)
                /\ Forward("cmd", line)
                /\ UNCHANGED cout

C2UAllow ==
    /\ C2ULine
    /\ LET cmd == ParseCommand(FirstLine(cin))
       IN  /\ Filtered(cmd)
           /\ Filter(cmd).Action = Allow
           /\ Gate(cmd, "Allow", cmd.Raw)
    /\ UNCHANGED <<sessVars, csent, clientEOF, upIn, pcU, litU, closes, dialVars,
                   budget, login, pvars, srvVars>>

C2URewrite ==
    /\ C2ULine
    /\ LET cmd == ParseCommand(FirstLine(cin))
       IN  /\ Filtered(cmd)
           /\ Filter(cmd).Action = Rewrite
           /\ Gate(cmd, "Rewrite", Filter(cmd).Rewritten)
    /\ UNCHANGED <<sessVars, csent, clientEOF, upIn, pcU, litU, closes, dialVars,
                   budget, login, pvars, srvVars>>

Min(a, b) == IF a < b THEN a ELSE b

\* io.CopyN from clientR fails before n bytes have come: the stream has ended,
\* or this side has closed the connection
ClientCopyFails == clientCloses > 0 \/ (clientEOF /\ Len(cin) = 0)

\* A Block case that leaves every literal in the stream
BlockDiscards_Never(lit) == FALSE

\* The condition under which the Block case discards a literal
BlockDiscards(lit) == lit.ok /\ lit.nonSync

\* A Block case that returns from the command loop behind the reject line
C2UBlock_ThenReturn ==
    /\ C2ULine
    /\ LET cmd == ParseCommand(FirstLine(cin))
       IN  /\ Filtered(cmd)
           /\ Filter(cmd).Action = Block
           /\ \E ok \in ClientWriteOutcomes :
                cout' = WriteClient("main", <<Filter(cmd).RejectMsg>>, ok)
           /\ cpos' = cpos + Len(cmd.Raw)
           /\ cur' = Handled(cmd.Raw, "Block")
           /\ pcC' = "cleanup"
    /\ UNCHANGED <<sessVars, csent, clientEOF, upIn, uout, pcU, litC, litU, closes, dialVars,
                   budget, login, pvars, srvVars>>

\* The Block case: the reject line, then a non-synchronizing literal is
\* consumed and discarded
C2UBlock ==
    /\ C2ULine
    /\ LET cmd == ParseCommand(FirstLine(cin))
           lit == ParseLiteral(cmd.Raw)
       IN  /\ Filtered(cmd)
           /\ Filter(cmd).Action = Block
           /\ \E ok \in ClientWriteOutcomes :
                cout' = WriteClient("main", <<Filter(cmd).RejectMsg>>, ok)
           /\ cpos' = cpos + Len(cmd.Raw)
           /\ cur' = Handled(cmd.Raw, "Block")
           /\ IF BlockDiscards(lit)
              THEN pcC' = "discard" /\ litC' = lit.n
              ELSE UNCHANGED <<pcC, litC>>
    /\ UNCHANGED <<sessVars, csent, clientEOF, upIn, uout, pcU, litU, closes, dialVars,
                   budget, login, pvars, srvVars>>

\* io.CopyN(io.Discard, s.clientR, n)
DiscardLiteral ==
    /\ pcC = "discard"
    /\ litC = 0 \/ Len(cin) > 0
    /\ LET k == Min(litC, Len(cin))
       IN  /\ cpos' = cpos + k
           /\ litC' = litC - k
           /\ pcC' = IF litC = k THEN "c2u" ELSE "discard"
    /\ UNCHANGED <<sessVars, csent, clientEOF, upIn, outs, pcU, litU, closes, dialVars,
                   budget, ghosts, pvars, srvVars>>

\* The error of that io.CopyN is ignored: the loop goes on to its next read
DiscardLiteralErr ==
    /\ pcC = "discard"
    /\ litC > 0 /\ ClientCopyFails
    /\ pcC' = "c2u"
    /\ UNCHANGED <<sessVars, clientIn, upIn, outs, pcU, litC, litU, closes, dialVars,
                   budget, ghosts, pvars, srvVars>>

\* io.CopyN(s.upstreamConn, s.clientR, n)
CopyLiteral ==
    /\ pcC = "copylit"
    /\ litC = 0 \/ Len(cin) > 0
    /\ LET k == Min(litC, Len(cin))
       IN  /\ cpos' = cpos + k
           /\ litC' = litC - k
           /\ IF k = 0 THEN pcC' = "nextline" /\ UNCHANGED uout
              ELSE \E ok \in UpstreamWriteOutcomes :
                    /\ uout' = WriteUpstream("lit", SubSeq(cin, 1, k), ok)
                    /\ pcC' = IF ~ok THEN "cleanup"
                              ELSE IF litC = k THEN "nextline" ELSE "copylit"
    /\ UNCHANGED <<sessVars, csent, clientEOF, upIn, cout, pcU, litU, closes, dialVars,
                   budget, ghosts, pvars, srvVars>>

CopyLiteralErr ==
    /\ pcC = "copylit"
    /\ litC > 0 /\ ClientCopyFails
    /\ pcC' = "cleanup"
    /\ UNCHANGED <<sessVars, clientIn, upIn, outs, pcU, litC, litU, closes, dialVars,
                   budget, ghosts, pvars, srvVars>>

\* A forwardWithLiterals that returns behind the line after a literal
NextLine_NoMoreLiterals ==
    /\ pcC = "nextline" /\ HasLine(cin)
    /\ \E ok \in UpstreamWriteOutcomes :
        /\ uout' = WriteUpstream("cont", FirstLine(cin), ok)
        /\ pcC' = IF ok THEN "c2u" ELSE "cleanup"
    /\ cpos' = cpos + Len(FirstLine(cin))
    /\ UNCHANGED <<sessVars, csent, clientEOF, upIn, cout, pcU, litC, litU, closes,
                   dialVars, budget, ghosts, pvars, srvVars>>

\* forwardWithLiterals reads the line after a literal and forwards it
NextLine ==
    /\ pcC = "nextline" /\ HasLine(cin)
    /\ Forward("cont", FirstLine(cin))
    /\ cpos' = cpos + Len(FirstLine(cin))
    /\ UNCHANGED <<sessVars, csent, clientEOF, upIn, cout, pcU, litU, closes, dialVars,
                   budget, ghosts, pvars, srvVars>>

(***************************************************************************)
(* Session.runPostAuth: the upstream-to-client goroutine                   *)
(***************************************************************************)
\* A goroutine that withholds every LIST/LSUB line of a filtered account
Hidden_EveryList(line) ==
    /\ HasFolderFilter(Accounts[account])
    /\ ParseListResponse(line).ok

\* Whether the goroutine withholds a line from the client
Hidden(line) ==
    /\ HasFolderFilter(Accounts[account])
    /\ ParseListResponse(line).ok
    /\ ~FolderAllowed(Accounts[account], ParseListResponse(line).mailbox)

\* A loop body that goes back to reading lines behind a withheld line
U2CHandle_NoDiscard(line, last) ==
    /\ upos' = upos + Len(line)
    /\ IF Hidden(line)
       THEN /\ UNCHANGED <<cout, litU>>
            /\ pcU' = (IF last THEN "exit" ELSE "read")
       ELSE \E ok \in ClientWriteOutcomes :
            /\ cout' = WriteClient("u2c", <<line>>, ok)
            /\ IF ~ok \/ last THEN pcU' = "exit" /\ UNCHANGED litU
               ELSE IF ParseLiteral(line).ok
               THEN pcU' = "lit" /\ litU' = [n |-> ParseLiteral(line).n, filtered |-> FALSE]
               ELSE pcU' = "read" /\ UNCHANGED litU

\* The body of the loop for one line; last tells that ReadString also
\* returned an error, so that the goroutine returns after the line
U2CHandle(line, last) ==
    /\ upos' = upos + Len(line)
    /\ IF Hidden(line)
       THEN /\ UNCHANGED cout
            /\ IF ParseLiteral(line).ok /\ ~last
               THEN pcU' = "lit" /\ litU' = [n |-> ParseLiteral(line).n, filtered |-> TRUE]
               ELSE pcU' = (IF last THEN "exit" ELSE "read") /\ UNCHANGED litU
       ELSE \E ok \in ClientWriteOutcomes :
            /\ cout' = WriteClient("u2c", <<line>>, ok)
            /\ IF ~ok \/ last THEN pcU' = "exit" /\ UNCHANGED litU
               ELSE IF ParseLiteral(line).ok
               THEN pcU' = "lit" /\ litU' = [n |-> ParseLiteral(line).n, filtered |-> FALSE]
               ELSE pcU' = "read" /\ UNCHANGED litU

Running == pcC \notin {"panic"}

U2CLine ==
    /\ Running /\ pcU = "read" /\ HasLine(uin)
    /\ U2CHandle(FirstLine(uin), FALSE)
    /\ UNCHANGED <<sessVars, clientIn, usent, upEOF, uout, pcC, litC, closes, dialVars,
                   budget, ghosts, pvars, srvVars>>

\* ReadString returns the bytes before the end of the stream together with
\* the error: the bytes are handled as a line, then the goroutine returns
U2CPartial ==
    /\ Running /\ pcU = "read" /\ ~HasLine(uin) /\ Len(uin) > 0
    /\ upEOF \/ upstreamCloses > 0
    /\ U2CHandle(uin, TRUE)
    /\ UNCHANGED <<sessVars, clientIn, usent, upEOF, uout, pcC, litC, closes, dialVars,
                   budget, ghosts, pvars, srvVars>>

U2CReadErr ==
    /\ Running /\ pcU = "read"
    /\ upstreamCloses > 0 \/ (upEOF /\ Len(uin) = 0)
    /\ pcU' = "exit"
    /\ UNCHANGED <<sessVars, clientIn, upIn, outs, pcC, litC, litU, closes, dialVars,
                   budget, ghosts, pvars, srvVars>>

\* io.CopyN of a server literal, to the client or to io.Discard
U2CLiteral ==
    /\ Running /\ pcU = "lit"
    /\ litU.n = 0 \/ Len(uin) > 0
    /\ LET k == Min(litU.n, Len(uin))
       IN  /\ upos' = upos + k
           /\ litU' = [litU EXCEPT !.n = litU.n - k]
           /\ IF k = 0 \/ litU.filtered
              THEN /\ UNCHANGED cout
                   /\ pcU' = IF litU.n = k THEN "read" ELSE "lit"
              ELSE \E ok \in ClientWriteOutcomes :
                    /\ cout' = WriteClient("u2c", <<SubSeq(uin, 1, k)>>, ok)
                    /\ pcU' = IF ~ok THEN "exit"
                              ELSE IF litU.n = k THEN "read" ELSE "lit"
    /\ UNCHANGED <<sessVars, clientIn, usent, upEOF, uout, pcC, litC, closes, dialVars,
                   budget, ghosts, pvars, srvVars>>

U2CLiteralErr ==
    /\ Running /\ pcU = "lit"
    /\ litU.n > 0
    /\ upstreamCloses > 0 \/ (upEOF /\ Len(uin) = 0)
    /\ pcU' = "exit"
    /\ UNCHANGED <<sessVars, clientIn, upIn, outs, pcC, litC, litU, closes, dialVars,
                   budget, ghosts, pvars, srvVars>>

\* cleanup: once.Do closes both connections
CleanupOnce ==
    IF onceDone THEN UNCHANGED closes
    ELSE /\ onceDone' = TRUE
         /\ clientCloses' = clientCloses + 1
         /\ upstreamCloses' = upstreamCloses + 1

\* A deferred function that closes done without calling cleanup()
U2CExit_NoCleanup ==
    /\ Running /\ pcU = "exit"
    /\ UNCHANGED closes
    /\ pcU' = "done"
    /\ UNCHANGED <<sessVars, clientIn, upIn, outs, pcC, litC, litU, dialVars, budget,
                   ghosts, pvars, srvVars>>

\* The goroutine's deferred function: cleanup(), close(done)
U2CExit ==
    /\ Running /\ pcU = "exit"
    /\ CleanupOnce
    /\ pcU' = "done"
    /\ UNCHANGED <<sessVars, clientIn, upIn, outs, pcC, litC, litU, dialVars, budget,
                   ghosts, pvars, srvVars>>

(***************************************************************************)
(* Session.runPostAuth and Session.Run: teardown                           *)
(***************************************************************************)
Cleanup_NoClose ==
    /\ pcC = "cleanup"
    /\ UNCHANGED closes
    /\ pcC' = "join"
    /\ UNCHANGED <<sessVars, clientIn, upIn, outs, pcU, litC, litU, dialVars, budget,
                   ghosts, pvars, srvVars>>

\* runPostAuth after clientToUpstream has returned: cleanup()
Cleanup ==
    /\ pcC = "cleanup"
    /\ CleanupOnce
    /\ pcC' = "join"
    /\ UNCHANGED <<sessVars, clientIn, upIn, outs, pcU, litC, litU, dialVars, budget,
                   ghosts, pvars, srvVars>>

\* <-done, the deferred cleanup (a no-op by now), then Run's deferred
\* s.clientConn.Close()
Join ==
    /\ pcC = "join" /\ pcU = "done"
    /\ clientCloses' = clientCloses + 1
    /\ pcC' = "done"
    /\ UNCHANGED <<sessVars, clientIn, upIn, outs, pcU, litC, litU, onceDone,
                   upstreamCloses, dialVars, budget, ghosts, pvars, srvVars>>

Next ==
    \/ ClientSendPre \/ ClientSendPost \/ ClientClose \/ UpstreamSend \/ UpstreamClose
    \/ Greet \/ PreAuthReadErr \/ PreAuthBad \/ PreAuthCapability \/ PreAuthNoop
    \/ PreAuthLogout \/ PreAuthOther
    \/ LoginRefused \/ LoginDialFailed \/ LoginUpstreamFailed \/ LoginSucceeded
    \/ C2UReadErr \/ C2UUnparseable \/ C2UIdle \/ IdleLine \/ C2ULogout
    \/ C2UAllow \/ C2URewrite \/ C2UBlock
    \/ DiscardLiteral \/ DiscardLiteralErr \/ CopyLiteral \/ CopyLiteralErr \/ NextLine
    \/ U2CLine \/ U2CPartial \/ U2CReadErr \/ U2CLiteral \/ U2CLiteralErr \/ U2CExit
    \/ Cleanup \/ Join

Spec == Init /\ [][Next]_vars

(***************************************************************************)
(* Scheduling: the Go runtime keeps running both goroutines of a session.  *)
(* The main goroutine, once clientToUpstream has returned, goes on to      *)
(* cleanup() and <-done.  The upstream reader goes on whenever its read    *)
(* returns the end of the stream or the error of a closed connection,      *)
(* whenever literal bytes are there to copy, and through its deferred      *)
(* function.  Nothing is assumed about when a whole line is picked up.     *)
(***************************************************************************)
MainTeardown == Cleanup \/ Join

U2CReturn ==
    U2CPartial \/ U2CReadErr \/ U2CLiteral \/ U2CLiteralErr \/ U2CExit

FairSpec == Spec /\ WF_vars(MainTeardown) /\ WF_vars(U2CReturn)

\* The main goroutine also goes on whenever a read of clientR or a literal
\* copy can return: with an error on a closed or ended stream, or with the
\* bytes that are there.  Nothing is assumed about when a whole command line
\* is picked up.
MainReturn ==
    \/ C2UReadErr \/ DiscardLiteral \/ DiscardLiteralErr
    \/ CopyLiteral \/ CopyLiteralErr \/ Cleanup \/ Join

FairSpecJoin == Spec /\ WF_vars(MainReturn) /\ WF_vars(U2CReturn)

(***************************************************************************)
(* Pure-function harness: Init draws an input, one action per function     *)
(* applies it once.                                                        *)
(***************************************************************************)
PureTags == {<<"a">>, <<"A", "0", "1">>}

PureVerbWords ==
    {W_STORE, W_COPY, W_MOVE, W_DELETE, W_EXPUNGE, W_APPEND, W_CREATE, W_RENAME,
     W_SUBSCRIBE, W_UNSUBSCRIBE, W_AUTHENTICATE, W_SELECT, W_EXAMINE, W_STATUS,
     W_UID, W_FETCH, W_NOOP, W_LIST}

PureVerbs ==
    PureVerbWords \cup {ToLower(v) : v \in PureVerbWords}
                  \cup {MixedCase(v) : v \in PureVerbWords}

PureArgs ==
    {<<>>,
     <<SP>> \o W_INBOX,
     <<SP>> \o W_STORE \o <<SP, "1">>,
     <<SP>> \o ToLower(W_STORE) \o <<SP, "1", ":", "*">>,
     <<SP>> \o W_COPY \o <<SP, "1", SP, "x">>,
     <<SP>> \o MixedCase(W_MOVE),
     <<SP>> \o W_EXPUNGE,
     <<SP>> \o ToLower(W_EXPUNGE) \o <<SP, "1">>,
     <<SP>> \o W_FETCH \o <<SP, "1">>,
     <<SP>> \o W_SELECT,
     <<SP, DQ, "M", "y", SP, "B", "o", "x", DQ>>,
     <<SP>> \o W_INBOX \o <<SP, "{", "5", "+", "}">>}

PureEnds == {CRLF, <<LF>>, <<>>}

PureLines ==
    {t \o <<SP>> \o v \o a \o e : t \in PureTags, v \in PureVerbs, a \in PureArgs, e \in PureEnds}

\* Strings to quote: every string of at most MaxArgLen bytes over a letter,
\* the double quote, the backslash and the space
MaxArgLen == 3

PureQuoteBytes == {"a", DQ, BS, SP}

PureStrings == UNION {[1..k -> PureQuoteBytes] : k \in 0..MaxArgLen}

\* Lines for ParseLiteral: what stands before the last brace pair, the
\* brace pair, and the end of the line
PureLiteralHeads == {<<>>, <<"a", SP>>, <<"a", SP, "{", "1", "}", SP>>, <<"{">>}

PureLiteralBraces ==
    {<<"{", "}">>, <<"{", "+", "}">>,
     <<"{", "0", "}">>, <<"{", "0", "+", "}">>,
     <<"{", "5", "}">>, <<"{", "5", "+", "}">>,
     <<"{", "1", "2", "}">>, <<"{", "0", "0", "7", "+", "}">>,
     <<"{", "+", "5", "}">>, <<"{", "+", "5", "+", "}">>,
     <<"{", "-", "0", "}">>, <<"{", "-", "5", "}">>, <<"{", "-", "5", "+", "}">>,
     <<"{", "a", "b", "c", "}">>, <<"{", "5", "a", "}">>, <<"{", "5", "+", "+", "}">>,
     <<"{", SP, "5", "}">>,
     <<"{">> \o [i \in 1..20 |-> "9"] \o <<"}">>,
     <<"{">> \o [i \in 1..20 |-> "9"] \o <<"+", "}">>,
     <<"5", "}">>, <<"{", "5">>, <<"{", "5", "}", SP>>, <<"{", "5", "}", "x">>, <<>>}

PureLiteralEnds == {CRLF, <<LF>>, <<>>, <<CR>>, CRLF \o CRLF}

PureLiteralLines ==
    {h \o b \o e : h \in PureLiteralHeads, b \in PureLiteralBraces, e \in PureLiteralEnds}

\* Lines for ParseCommand: a tag, a verb and arguments, each possibly empty,
\* joined with or without a space, and the end of the line
PureCommandTags == {<<>>, <<"a">>, <<"A", "0", "1">>}

PureCommandVerbs ==
    {<<>>, W_NOOP, ToLower(W_NOOP), W_UID, ToLower(W_UID), MixedCase(W_UID),
     W_DONE, ToLower(W_DONE), MixedCase(W_DONE)}

PureCommandArgs ==
    {<<>>, W_FETCH, ToLower(W_FETCH) \o <<SP, "1">>, <<SP>> \o W_FETCH, <<"1", SP, "x">>}

PureSeps == {<<>>, <<SP>>}

PureCommandLines ==
    {t \o s1 \o v \o s2 \o a \o e :
        t \in PureCommandTags, s1 \in PureSeps, v \in PureCommandVerbs,
        s2 \in PureSeps, a \in PureCommandArgs, e \in PureLiteralEnds}

\* Folder names and list entries for FolderAllowed
N_Inbox == <<"I", "n", "b", "o", "x">>

PureFolderNames ==
    {<<>>, W_INBOX, ToLower(W_INBOX), N_Inbox \o <<"/", "x">>, W_INBOX \o <<".", "X">>,
     ToLower(W_INBOX) \o <<"e", "s">>, N_Inbox \o <<"x">>,
     F_Trash, ToLower(F_Trash), F_Trash \o <<"/", "x">>, F_Trash \o <<".", "x">>,
     F_Trash \o <<"/">>, F_Trash \o <<"y">>, <<"T", "r", "a">>,
     F_Trash \o <<"/", "x", "/", "y">>, F_Trash \o <<"/", "X">>}

PureFolderLists ==
    {<<F_Trash>>, <<ToLower(W_INBOX)>>, <<F_Trash \o <<"/", "x">>>>,
     <<W_INBOX, F_Trash>>, <<N_Inbox \o <<".", "X">>>>, <<ToLower(W_INBOX) \o <<"e", "s">>>>}

\* An account as Load returns it: no list, an allow-list or a block-list
PureFolderAccounts ==
    {[AllowedFolders |-> <<>>, BlockedFolders |-> <<>>]}
    \cup {[AllowedFolders |-> l, BlockedFolders |-> <<>>] : l \in PureFolderLists}
    \cup {[AllowedFolders |-> <<>>, BlockedFolders |-> l] : l \in PureFolderLists}

PureFolderQueries ==
    {[acct |-> a, name |-> n] : a \in PureFolderAccounts, n \in PureFolderNames}

\* Decoded configurations for Load: at most MaxAccounts accounts
MaxAccounts == 2

PureTLSModes ==
    {[tls |-> FALSE, starttls |-> FALSE], [tls |-> TRUE, starttls |-> FALSE],
     [tls |-> TRUE, starttls |-> TRUE]}

PureFolderSetups ==
    {[allow |-> <<>>, block |-> <<>>, writable |-> <<>>],
     [allow |-> <<W_INBOX>>, block |-> <<>>, writable |-> <<N_Inbox \o <<"/", "x">>>>],
     [allow |-> <<W_INBOX>>, block |-> <<>>, writable |-> <<W_INBOX, F_Trash>>],
     [allow |-> <<>>, block |-> <<F_Trash>>, writable |-> <<F_Drafts, F_Trash \o <<".", "x">>>>],
     [allow |-> <<>>, block |-> <<F_Trash>>, writable |-> <<F_Drafts>>],
     [allow |-> <<W_INBOX>>, block |-> <<F_Trash>>, writable |-> <<>>]}

PureLoadAccounts ==
    {[LocalUser |-> u, RemoteTLS |-> t.tls, RemoteStartTLS |-> t.starttls,
      AllowedFolders |-> f.allow, BlockedFolders |-> f.block, WritableFolders |-> f.writable] :
        u \in {<<"u", "1">>, <<"u", "2">>}, t \in PureTLSModes, f \in PureFolderSetups}

PureConfigs == UNION {[1..k -> PureLoadAccounts] : k \in 0..MaxAccounts}

\* What the upstream answers to the proxy's LOGIN: untagged lines, then the
\* tagged line, whole or cut short by the end of the stream
PureLoginHeads ==
    {<<>>,
     <<"*", SP, "O", "K", SP, "n", "o", "t", "e">> \o CRLF,
     <<"*", SP, "N", "O", SP, "x">> \o CRLF \o <<"p", "r", "o", "x", "y", "1", SP, "O", "K">> \o CRLF}

PureLoginTagged ==
    {<<>>,
     MsgProxyTag \o <<"O", "K", SP>> \o W_LOGIN \o <<SP, "c", "o", "m", "p", "l", "e", "t", "e", "d">> \o CRLF,
     MsgProxyTag \o <<"O", "K">> \o CRLF,
     MsgProxyTag \o <<"O", "K">>,
     MsgProxyTag \o <<"N", "O", SP>> \o W_LOGIN \o <<SP, "f", "a", "i", "l", "e", "d">> \o CRLF,
     MsgProxyTag \o <<"B", "A", "D", SP, "x">> \o CRLF,
     MsgProxyTag \o <<"N", "O", SP, "n", "o", "t", SP, "O", "K">> \o CRLF,
     MsgProxyTag \o <<"B", "A", "D", SP, "O", "K", "?">> \o CRLF}

PureLoginTails == {<<>>, MsgProxyTag \o <<"O", "K">> \o CRLF}

PureLoginExchanges ==
    {[acct |-> a, resp |-> h \o t \o e] :
        a \in 1..Len(Accounts), h \in PureLoginHeads, t \in PureLoginTagged,
        e \in PureLoginTails}

\* Scripted servers for dialUpstream: what is sent in the clear (greeting,
\* answer to STARTTLS) and inside TLS (greeting, answer to LOGIN)
PureDialModes == [RemoteTLS : BOOLEAN, RemoteStartTLS : BOOLEAN]

PurePlainStreams ==
    {<<>>,
     <<"*", SP, "O", "K", SP, "h", "i">>,
     <<"*", SP, "O", "K", SP, "h", "i">> \o CRLF,
     <<"*", SP, "O", "K", SP, "h", "i">> \o CRLF \o MsgProxyTag \o <<"O", "K", SP, "g", "o">> \o CRLF,
     <<"*", SP, "O", "K", SP, "h", "i">> \o CRLF \o MsgProxyTag \o <<"O", "K", SP, "g", "o">>,
     <<"*", SP, "O", "K", SP, "h", "i">> \o CRLF \o MsgProxyTag \o <<"N", "O">> \o CRLF,
     <<"*", SP, "O", "K", SP, "h", "i">> \o CRLF \o MsgProxyTag \o <<"B", "A", "D", SP, "x">> \o CRLF
        \o MsgProxyTag \o <<"O", "K">> \o CRLF,
     <<"*", SP, "B", "Y", "E">> \o CRLF \o MsgProxyTag \o <<"O", "K">> \o CRLF}

PureTLSGreetings ==
    {<<>>,
     <<"*", SP, "O", "K", SP, "T", "L", "S">> \o CRLF,
     <<"*", SP, "O", "K">>,
     <<"*", SP, "P", "R", "E", "A", "U", "T", "H", SP, "x">> \o CRLF,
     <<"*", SP, "B", "Y", "E">> \o CRLF,
     <<"+", SP, "O", "K">> \o CRLF}

PureTLSAnswers ==
    {<<>>, MsgProxyTag \o <<"O", "K">> \o CRLF, MsgProxyTag \o <<"N", "O">> \o CRLF}

PureDials ==
    {[mode |-> m,
      srv |-> [dial |-> d, writeOK |-> w, handshake |-> h, plain |-> p, tls |-> g \o a]] :
        m \in PureDialModes, d \in BOOLEAN, w \in BOOLEAN, h \in BOOLEAN,
        p \in PurePlainStreams, g \in PureTLSGreetings, a \in PureTLSAnswers}

PureInputs(f) ==
    IF f = "Filter" THEN PureLines
    ELSE IF f = "DialUpstream" THEN PureDials
    ELSE IF f = "LoginUpstream" THEN PureLoginExchanges
    ELSE IF f = "Load" THEN PureConfigs
    ELSE IF f = "FolderAllowed" THEN PureFolderQueries
    ELSE IF f = "ParseCommand" THEN PureCommandLines
    ELSE IF f = "QuoteParse" THEN PureStrings
    ELSE IF f = "ParseLiteral" THEN PureLiteralLines
    ELSE {}

PureFunctions ==
    {"Filter", "QuoteParse", "ParseLiteral", "ParseCommand", "FolderAllowed", "Load",
     "LoginUpstream", "DialUpstream"}

sessionVars ==
    <<sessVars, clientIn, upIn, outs, ctl, closes, dialVars, budget, ghosts>>

\* The functions are applied outside any session: the session stays as built
InitPure ==
    /\ SessionInit
    /\ ServerInit
    /\ pfn \in PureFunctions
    /\ pin \in PureInputs(pfn)
    /\ pout = NoResult

\* ParseCommand, then Filter, as clientToUpstream applies them to one line
EvalFilter ==
    /\ pfn = "Filter"
    /\ pout = NoResult
    /\ ParseCommand(pin).err = "nil"
    /\ pout' = [cmd |-> ParseCommand(pin), res |-> Filter(ParseCommand(pin))]
    /\ UNCHANGED <<pfn, pin, sessionVars, srvVars>>

\* quoteIMAPString, then parseOneArg on its result
EvalQuoteParse ==
    /\ pfn = "QuoteParse"
    /\ pout = NoResult
    /\ pout' = [quoted |-> quoteIMAPString(pin),
                parsed |-> parseOneArg(quoteIMAPString(pin))]
    /\ UNCHANGED <<pfn, pin, sessionVars, srvVars>>

\* ParseLiteral on one line
EvalParseLiteral ==
    /\ pfn = "ParseLiteral"
    /\ pout = NoResult
    /\ pout' = ParseLiteral(pin)
    /\ UNCHANGED <<pfn, pin, sessionVars, srvVars>>

\* ParseCommand on one line, and on the same line without its line end
EvalParseCommand ==
    /\ pfn = "ParseCommand"
    /\ pout = NoResult
    /\ pout' = [cmd |-> ParseCommand(pin), bare |-> ParseCommand(TrimRightCRLF(pin))]
    /\ UNCHANGED <<pfn, pin, sessionVars, srvVars>>

\* AccountConfig.FolderAllowed on one folder name
EvalFolderAllowed ==
    /\ pfn = "FolderAllowed"
    /\ pout = NoResult
    /\ pout' = [allowed |-> FolderAllowed(pin.acct, pin.name)]
    /\ UNCHANGED <<pfn, pin, sessionVars, srvVars>>

\* Load on one decoded configuration
EvalLoad ==
    /\ pfn = "Load"
    /\ pout = NoResult
    /\ pout' = [err |-> Load(pin)]
    /\ UNCHANGED <<pfn, pin, sessionVars, srvVars>>

\* LoginUpstream against one scripted upstream
EvalLoginUpstream ==
    /\ pfn = "LoginUpstream"
    /\ pout = NoResult
    /\ pout' = [sent |-> LoginLine(Accounts[pin.acct]),
                res  |-> LoginUpstreamRead(pin.resp, 0)]
    /\ UNCHANGED <<pfn, pin, sessionVars, srvVars>>

\* handleLogin's dial and upstream login against one scripted server
EvalDialUpstream ==
    /\ pfn = "DialUpstream"
    /\ pout = NoResult
    /\ pout' = DialAndLogin(Accounts[1], pin.mode, pin.srv)
    /\ UNCHANGED <<pfn, pin, sessionVars, srvVars>>

NextPure ==
    \/ EvalFilter \/ EvalQuoteParse \/ EvalParseLiteral \/ EvalParseCommand
    \/ EvalFolderAllowed \/ EvalLoad \/ EvalLoginUpstream \/ EvalDialUpstream

SpecPure == InitPure /\ [][NextPure]_vars

(***************************************************************************)
(* cmd/imap-proxy and Server: start-up, the accept loop and shutdown       *)
(*                                                                         *)
(* main runs ListenAndServe while a second goroutine waits for a signal    *)
(* and then calls Server.Close.  A session Serve has started is kept here  *)
(* only by its status: "running" until its own client or upstream I/O      *)
(* ends ("ended"), "killed" when the process exits under it.               *)
(***************************************************************************)
MaxConns == 2

\* The process is gone: main has returned or a goroutine has panicked
ProcessExit(ss) == [i \in 1..Len(ss) |-> IF ss[i] = "running" THEN "killed" ELSE ss[i]]

\* net.Listen in ListenAndServe: the listener, or an error that is returned
SrvListen ==
    /\ srvPc = "listen"
    /\ \/ lstate' = "open" /\ srvPc' = "store" /\ UNCHANGED srvErr
       \/ srvPc' = "returned" /\ srvErr' = "err" /\ UNCHANGED lstate
    /\ UNCHANGED <<srvListener, sigPc, closeL, pending, nConns, sessions, sessionVars, pvars>>

\* s.listener = l in ListenAndServe, without the mutex
SrvStore ==
    /\ srvPc = "store"
    /\ srvListener' = "l"
    /\ srvPc' = "serve"
    /\ UNCHANGED <<lstate, srvErr, sigPc, closeL, pending, nConns, sessions, sessionVars, pvars>>

\* s.listener = l in Serve, under the mutex
SrvServeStore ==
    /\ srvPc = "serve"
    /\ srvListener' = "l"
    /\ srvPc' = "accept"
    /\ UNCHANGED <<lstate, srvErr, sigPc, closeL, pending, nConns, sessions, sessionVars, pvars>>

\* l.Accept returns a connection: NewSession, go sess.Run()
SrvAccept ==
    /\ srvPc = "accept" /\ lstate = "open" /\ pending > 0
    /\ pending' = pending - 1
    /\ sessions' = Append(sessions, "running")
    /\ UNCHANGED <<srvPc, srvListener, lstate, srvErr, sigPc, closeL, nConns, sessionVars, pvars>>

\* l.Accept on the closed listener: net.ErrClosed, Serve returns nil
SrvAcceptClosed ==
    /\ srvPc = "accept" /\ lstate = "closed"
    /\ srvPc' = "returned" /\ srvErr' = "nil"
    /\ UNCHANGED <<srvListener, lstate, sigPc, closeL, pending, nConns, sessions, sessionVars, pvars>>

\* main behind ListenAndServe: it returns, or calls os.Exit(1) on an error;
\* either way the process ends with its goroutines
MainExit ==
    /\ srvPc = "returned"
    /\ srvPc' = "exited"
    /\ sessions' = ProcessExit(sessions)
    /\ UNCHANGED <<srvListener, lstate, srvErr, sigPc, closeL, pending, nConns, sessionVars, pvars>>

\* A client connects to the listening address
ClientConnect ==
    /\ lstate = "open" /\ srvPc /= "exited"
    /\ nConns < MaxConns
    /\ nConns' = nConns + 1
    /\ pending' = pending + 1
    /\ UNCHANGED <<srvPc, srvListener, lstate, srvErr, sigPc, closeL, sessions, sessionVars, pvars>>

\* Session.Run returns: the session's own client or upstream I/O has ended
SessionEnds ==
    /\ srvPc /= "exited"
    /\ \E i \in 1..Len(sessions) :
        /\ sessions[i] = "running"
        /\ sessions' = [sessions EXCEPT ![i] = "ended"]
    /\ UNCHANGED <<srvPc, srvListener, lstate, srvErr, sigPc, closeL, pending, nConns,
                   sessionVars, pvars>>

\* What Close can read from s.listener.  The store of ListenAndServe is not
\* under the mutex: until Serve has taken the mutex, Close's read races with
\* it and can see the old value, the new value or half of the interface value
CloseReads ==
    IF srvPc \in {"listen"} THEN {"nil"}
    ELSE IF srvPc = "store" THEN {"nil", "torn"}
    ELSE IF srvPc = "serve" THEN {"nil", "l", "torn"}
    ELSE {srvListener}

\* The signal arrives: Server.Close reads s.listener under the mutex
CloseRead ==
    /\ sigPc = "wait" /\ srvPc /= "exited"
    /\ \E l \in CloseReads : closeL' = l
    /\ sigPc' = "call"
    /\ UNCHANGED <<srvPc, srvListener, lstate, srvErr, pending, nConns, sessions, sessionVars, pvars>>

\* if l != nil { return l.Close() }: the connections still queued are
\* dropped with the listener.  A call through a half-written interface value
\* panics, which ends the process
CloseCall ==
    /\ sigPc = "call" /\ srvPc /= "exited"
    /\ IF closeL = "l" THEN
            /\ lstate' = "closed" /\ pending' = 0 /\ sigPc' = "done"
            /\ UNCHANGED <<srvPc, sessions>>
       ELSE IF closeL = "nil" THEN
            /\ sigPc' = "done"
            /\ UNCHANGED <<srvPc, lstate, pending, sessions>>
       ELSE /\ sigPc' = "panic" /\ srvPc' = "exited"
            /\ sessions' = ProcessExit(sessions)
            /\ UNCHANGED <<lstate, pending>>
    /\ UNCHANGED <<srvListener, srvErr, closeL, nConns, sessionVars, pvars>>

NextServer ==
    \/ SrvListen \/ SrvStore \/ SrvServeStore \/ SrvAccept \/ SrvAcceptClosed \/ MainExit
    \/ ClientConnect \/ SessionEnds \/ CloseRead \/ CloseCall

SpecServer == Init /\ [][NextServer]_vars

\* The Go runtime keeps running main and, once the signal has come, the
\* goroutine that calls Close
MainStep ==
    SrvListen \/ SrvStore \/ SrvServeStore \/ SrvAccept \/ SrvAcceptClosed \/ MainExit

FairSpecServer == SpecServer /\ WF_vars(MainStep) /\ WF_vars(CloseCall)

(***************************************************************************)
(* C2: Filter blocks exactly the mutating verbs and the mutating UID       *)
(* sub-verbs, rewrites exactly SELECT, allows everything else, and a Block *)
(* carries the reject line built from the command's own tag.               *)
(***************************************************************************)
C2_FilterDecision ==
    (pfn = "Filter" /\ pout /= NoResult) =>
        LET cmd == pout.cmd
            res == pout.res
            uidBlock  == /\ cmd.Verb = <<"U", "I", "D">>
                         /\ cmd.SubVerb \in {W_STORE, W_COPY, W_MOVE, W_EXPUNGE}
            verbBlock == /\ cmd.Verb /= <<"U", "I", "D">>
                         /\ cmd.Verb \in {W_STORE, W_COPY, W_MOVE, W_DELETE, W_EXPUNGE,
                                          W_APPEND, W_CREATE, W_RENAME, W_SUBSCRIBE,
                                          W_UNSUBSCRIBE, W_AUTHENTICATE}
            isSelect  == cmd.Verb = <<"S", "E", "L", "E", "C", "T">>
        IN  /\ (res.Action = Block) <=> (uidBlock \/ verbBlock)
            /\ (res.Action = Rewrite) <=> isSelect
            /\ (res.Action = Allow) <=> ~(uidBlock \/ verbBlock \/ isSelect)
            /\ uidBlock => res.RejectMsg = cmd.Tag \o MsgUIDNotAllowed
            /\ verbBlock => res.RejectMsg = cmd.Tag \o MsgNO \o cmd.Verb \o MsgNotAllowed

\* A lower-case "uid store" has been blocked with the UID reject line
C2_Witness ==
    /\ pfn = "Filter"
    /\ pout /= NoResult
    /\ pout.cmd.Verb = W_UID
    /\ pout.cmd.SubVerb = W_STORE
    /\ pout.res.Action = Block
    /\ pin = <<"a", SP, "u", "i", "d", SP, "s", "t", "o", "r", "e", SP, "1", ":", "*", CR, LF>>

(***************************************************************************)
(* C3: the rewrite of a SELECT keeps the tag prefix and every byte after   *)
(* the 6-byte verb slot, and puts the 7 bytes EXAMINE in the slot; the     *)
(* slot held SELECT in some letter case, and the result is an EXAMINE      *)
(* command with the same tag.                                              *)
(***************************************************************************)
C3_SelectRewrite ==
    (pfn = "Filter" /\ pout /= NoResult /\ pout.cmd.Verb = W_SELECT) =>
        LET k   == Len(pout.cmd.Tag) + 1
            rew == pout.res.Rewritten
        IN  /\ pout.res.Action = Rewrite
            /\ ToUpper(SubSeq(pin, k + 1, k + 6)) = W_SELECT
            /\ Len(rew) = Len(pin) + 1
            /\ SubSeq(rew, 1, k) = pout.cmd.Tag \o <<SP>>
            /\ SubSeq(rew, 1, k) = SubSeq(pin, 1, k)
            /\ SubSeq(rew, k + 1, k + 7) = <<"E", "X", "A", "M", "I", "N", "E">>
            /\ From(rew, k + 8) = From(pin, k + 7)
            /\ ParseCommand(rew).Verb = W_EXAMINE
            /\ ParseCommand(rew).Tag = pout.cmd.Tag

\* A mixed-case select with a quoted argument and a bare LF has been rewritten
C3_Witness ==
    /\ pfn = "Filter"
    /\ pout /= NoResult
    /\ pin = <<"A", "0", "1", SP, "s", "E", "l", "E", "c", "T", SP, DQ, "M", "y", SP,
               "B", "o", "x", DQ, LF>>
    /\ pout.res.Rewritten = <<"A", "0", "1", SP, "E", "X", "A", "M", "I", "N", "E", SP,
                              DQ, "M", "y", SP, "B", "o", "x", DQ, LF>>

(***************************************************************************)
(* What the claims about the command loop read off the record cur          *)
(***************************************************************************)
\* The command loop of an authenticated session handled cur under the policy
PolicyHandled ==
    state = "Auth" /\ cur.act \in {"Allow", "Rewrite", "Block", "FolderNO", "Panic"}

CurCmd == ParseCommand(cur.raw)

\* Where the client stream stands right behind the line of cur
CurEnd == cur.start + Len(cur.raw)

\* The writes to upstream and, by the main goroutine, to the client since the
\* line of cur was read
CurUpstream == SubSeq(uout, cur.uoutLen + 1, Len(uout))

CurReplies == SelectSeq(SubSeq(cout, cur.coutLen + 1, Len(cout)), LAMBDA w : w.by = "main")

\* A write may have been lost: the peer is gone or the connection is closed
ClientGone == clientEOF \/ clientCloses > 0

UpstreamGone == upEOF \/ upstreamCloses > 0

(***************************************************************************)
(* C1: for a command the policy classifies Block nothing is written to     *)
(* upstream; if its line ends with a non-synchronizing literal {N+},       *)
(* exactly the N client bytes behind the line are consumed (fewer only if  *)
(* the client stream fails first), none of them is written to upstream or  *)
(* handled as a command; without such a literal nothing behind the line is *)
(* consumed.                                                               *)
(***************************************************************************)
C1_BlockedNothingUpstream ==
    (PolicyHandled /\ Filter(CurCmd).Action = Block) =>
        LET lit == ParseLiteral(cur.raw)
        IN  /\ cur.act = "Block"
            /\ Len(uout) = cur.uoutLen
            /\ pcC \in {"c2u", "discard"}
            /\ IF lit.ok /\ lit.nonSync
               THEN /\ pcC = "discard" => cpos + litC = CurEnd + lit.n
                    /\ pcC = "c2u" => (cpos = CurEnd + lit.n \/ ClientCopyFails)
                    /\ cpos <= CurEnd + lit.n
               ELSE pcC = "c2u" /\ cpos = CurEnd

\* APPEND INBOX {3+} was refused, its three literal bytes are consumed, and
\* the loop is back at its read with the rest of the stream untouched
C1_Witness ==
    /\ PolicyHandled /\ cur.act = "Block"
    /\ CurCmd.Verb = W_APPEND
    /\ ParseLiteral(cur.raw) = [n |-> 3, nonSync |-> TRUE, ok |-> TRUE]
    /\ pcC = "c2u" /\ cpos = CurEnd + 3
    /\ SubSeq(csent, CurEnd + 1, Len(csent)) = L_abc
    /\ cin = CRLF
    /\ CurReplies = <<[by |-> "main", data |-> T_b \o MsgNO \o W_APPEND \o MsgNotAllowed]>>
    /\ ~ClientGone

(***************************************************************************)
(* What the claims about LOGIN read off the record login                   *)
(***************************************************************************)
LoginCmd == ParseCommand(login.raw)

\* The arguments of the LOGIN: everything behind "tag LOGIN "
LoginArgs == parseLoginArgs(SplitN3(TrimRightCRLF(login.raw))[3])

\* The LOGIN names a configured account and gives its local password
LoginMatches ==
    /\ Len(SplitN3(TrimRightCRLF(login.raw))) = 3
    /\ LoginArgs.err = "nil"
    /\ \E i \in 1..Len(Accounts) :
        Accounts[i].LocalUser = LoginArgs.user /\ Accounts[i].LocalPassword = LoginArgs.pass

\* The LOGIN is the last line the main goroutine handled
LoginJustHandled == cur.act = "LOGIN" /\ cur.raw = login.raw

(***************************************************************************)
(* C4: a session is Authenticated only through a LOGIN whose user names a  *)
(* configured account, whose password is that account's local password,    *)
(* and for which the upstream dial and the upstream LOGIN succeeded; no    *)
(* upstream is dialed for a LOGIN whose user or password does not match;   *)
(* on success the client is sent '<tag> OK LOGIN completed'.               *)
(***************************************************************************)
C4_AuthOnlyByLogin ==
    /\ state = "Auth" =>
        /\ LoginCmd.err = "nil" /\ LoginCmd.Verb = W_LOGIN
        /\ LoginMatches
        /\ login.dial = "ok" /\ login.verdict = "ok"
        /\ account /= NoAccount
        /\ Accounts[account].LocalUser = LoginArgs.user
        /\ Accounts[account].LocalPassword = LoginArgs.pass
        /\ upstreamConn = "conn"
    /\ (login /= NoLogin /\ ~LoginMatches) =>
        /\ login.dial = "none"
        /\ state /= "Auth"
        /\ LoginJustHandled => CurUpstream = <<>>
    /\ state \in {"Greeting", "NotAuth"} => account = NoAccount /\ upstreamConn = "nil"
    /\ (state = "Auth" /\ LoginJustHandled) =>
        \/ /\ Len(cout) > cur.coutLen
           /\ cout[cur.coutLen + 1] = [by |-> "main", data |-> LoginCmd.Tag \o MsgOKLogin]
        \/ ClientGone

\* A lower-case login with quoted arguments has authenticated account r2, and
\* the client has its OK
C4_Witness ==
    /\ state = "Auth" /\ account = 2
    /\ LoginJustHandled
    /\ login.raw = Line(T_a, ToLower(W_LOGIN) \o <<SP, DQ, "r", "2", DQ, SP, DQ, "p", "2", DQ>>)
    /\ cout[Len(cout)] = [by |-> "main", data |-> T_a \o MsgOKLogin]
    /\ uout[1].data = LoginLine(Accounts[2])

(***************************************************************************)
(* C5: every failed LOGIN (missing or malformed arguments, unknown user,   *)
(* wrong local password, upstream dial failure, upstream LOGIN failure) is *)
(* answered with exactly one '<tag> NO LOGIN failed', leaves the session   *)
(* NotAuthenticated with no upstream connection open, and leaves the       *)
(* pre-auth loop reading, so that a later valid LOGIN can succeed.         *)
(***************************************************************************)
C5_FailedLogin ==
    (LoginJustHandled /\ ~(LoginMatches /\ login.dial = "ok" /\ login.verdict = "ok")) =>
        /\ state = "NotAuth"
        /\ account = NoAccount
        /\ upstreamConn = "nil"
        /\ dials = abandoned
        /\ upstreamCloses = 0
        /\ pcC = "preauth"
        /\ \/ CurReplies = <<[by |-> "main", data |-> LoginCmd.Tag \o MsgNOLogin]>>
           \/ CurReplies = <<>> /\ ClientGone

\* The upstream refused the first LOGIN and its connection was closed; the
\* second LOGIN on the same client connection has authenticated the session
C5_Witness ==
    /\ abandoned = 1 /\ dials = 2
    /\ state = "Auth" /\ upstreamConn = "conn"
    /\ LoginJustHandled
    /\ Len(cout) = 3
    /\ cout[2].data = T_a \o MsgNOLogin
    /\ cout[3].data = T_a \o MsgOKLogin
    /\ uout[1].conn = 1 /\ uout[2].conn = 2

(***************************************************************************)
(* C6: with a folder allow-list or block-list configured, a SELECT,        *)
(* EXAMINE or STATUS whose mailbox argument (atom or quoted string) is not *)
(* allowed for the account is answered locally with '<tag> NO folder not   *)
(* available', nothing of it is written to upstream, and the command loop  *)
(* goes on to its next read; the same commands on an allowed folder are    *)
(* forwarded (SELECT as EXAMINE).                                          *)
(***************************************************************************)
C6_FolderGate ==
    (/\ PolicyHandled
     /\ HasFolderFilter(Accounts[account])
     /\ CurCmd.Verb \in {W_SELECT, W_EXAMINE, W_STATUS}
     /\ ~extractCommandMailbox(CurCmd).panic
     /\ extractCommandMailbox(CurCmd).mailbox /= <<>>) =>
        IF FolderAllowed(Accounts[account], extractCommandMailbox(CurCmd).mailbox)
        THEN /\ cur.act \in {"Allow", "Rewrite"}
             /\ CurReplies = <<>>
             /\ \/ /\ CurUpstream /= <<>>
                   /\ CurUpstream[1].kind = "cmd"
                   /\ CurUpstream[1].data =
                        (IF CurCmd.Verb = W_SELECT THEN Filter(CurCmd).Rewritten ELSE cur.raw)
                \/ CurUpstream = <<>> /\ UpstreamGone
        ELSE /\ cur.act = "FolderNO"
             /\ CurUpstream = <<>>
             /\ pcC = "c2u"
             /\ cpos = CurEnd
             /\ \/ CurReplies = <<[by |-> "main", data |-> CurCmd.Tag \o MsgNOFolder]>>
                \/ CurReplies = <<>> /\ ClientGone

\* On the account that hides Trash, STATUS "Trash" (a quoted string) was
\* answered locally and nothing went upstream
C6_Witness ==
    /\ PolicyHandled /\ account = 3
    /\ cur.raw = Line(T_b, W_STATUS \o <<SP, DQ>> \o F_Trash \o <<DQ, SP, "(", "U", ")">>)
    /\ cur.act = "FolderNO"
    /\ CurReplies = <<[by |-> "main", data |-> T_b \o MsgNOFolder]>>
    /\ CurUpstream = <<>>
    /\ pcC = "c2u"

(***************************************************************************)
(* C7: the upstream-to-client goroutine withholds an upstream line iff the *)
(* account has a folder filter and the line parses as a LIST/LSUB response *)
(* whose mailbox is not allowed; every other line is written to the client *)
(* unchanged and in upstream order (a literal goes the way of its line),   *)
(* so as long as the client connection takes the writes the client has     *)
(* exactly the upstream bytes read so far minus the withheld ones, and all *)
(* of them when the account has no folder filter.                          *)
(***************************************************************************)
\* The line at the head of s, or all of s when it holds no line end
HeadLine(s) == IF HasLine(s) THEN FirstLine(s) ELSE s

LineWithheld(line) ==
    /\ Len(Accounts[account].AllowedFolders) + Len(Accounts[account].BlockedFolders) > 0
    /\ ParseListResponse(line).ok
    /\ ~FolderAllowed(Accounts[account], ParseListResponse(line).mailbox)

\* What the client is to see of the upstream bytes s
RECURSIVE ClientView(_)
ClientView(s) ==
    IF s = <<>> THEN <<>>
    ELSE LET line == HeadLine(s)
             rest == From(s, Len(line) + 1)
             lit  == ParseLiteral(line)
             k    == IF lit.ok THEN Min(lit.n, Len(rest)) ELSE 0
             keep == IF LineWithheld(line) THEN <<>> ELSE line \o SubSeq(rest, 1, k)
         IN  keep \o ClientView(From(rest, k + 1))

U2CWrites == SelectSeq(cout, LAMBDA w : w.by = "u2c")

HasWritable == account /= NoAccount /\ Len(Accounts[account].WritableFolders) > 0

\* The one-argument rule applied to what follows "tag VERB "
CurMailbox == extractCommandMailbox(CurCmd).mailbox

\* The command lines the policy has forwarded that are a SELECT or an EXAMINE
ForwardedSelects ==
    SelectSeq(uout, LAMBDA w : /\ w.kind = "cmd"
                               /\ ParseCommand(w.data).err = "nil"
                               /\ ParseCommand(w.data).Verb \in {W_SELECT, W_EXAMINE})

\* The selected folder: the mailbox argument of the last of them
SelectedFolder ==
    IF ForwardedSelects = <<>> THEN <<>>
    ELSE extractCommandMailbox(
            ParseCommand(ForwardedSelects[Len(ForwardedSelects)].data)).mailbox

(***************************************************************************)
(* C8: for an account with a writable-folder list, a SELECT whose mailbox  *)
(* argument is a writable folder is forwarded to upstream as SELECT, byte  *)
(* for byte, and a SELECT of a folder that is not writable is forwarded    *)
(* rewritten to EXAMINE.                                                   *)
(***************************************************************************)
C8_WritableSelectPassesThrough ==
    (/\ PolicyHandled /\ HasWritable
     /\ CurCmd.Verb = W_SELECT
     /\ CurMailbox /= <<>>
     /\ CurUpstream /= <<>>) =>
        CurUpstream[1].data =
            (IF FolderWritable(Accounts[account], CurMailbox)
             THEN cur.raw
             ELSE Filter(CurCmd).Rewritten)

(***************************************************************************)
(* C9: the selected folder is the mailbox argument of the last forwarded   *)
(* SELECT or EXAMINE, and whenever it is in the account's writable-folder  *)
(* list a STORE or UID STORE is forwarded to upstream instead of being     *)
(* rejected.                                                               *)
(***************************************************************************)
C9_StoreInWritableFolder ==
    (/\ PolicyHandled /\ HasWritable
     /\ \/ CurCmd.Verb = W_STORE
        \/ CurCmd.Verb = W_UID /\ CurCmd.SubVerb = W_STORE
     /\ SelectedFolder /= <<>>
     /\ FolderWritable(Accounts[account], SelectedFolder)) =>
        /\ cur.act /= "Block"
        /\ CurReplies = <<>>
        /\ \/ CurUpstream /= <<>> /\ CurUpstream[1].data = cur.raw
           \/ UpstreamGone

(***************************************************************************)
(* C10: for an account with a writable-folder list, an APPEND whose        *)
(* mailbox argument is a writable folder is forwarded to upstream with its *)
(* literal (the N literal bytes and the line behind them), and the client  *)
(* gets no local reject.                                                   *)
(***************************************************************************)
C10_AppendToWritableFolder ==
    (/\ PolicyHandled /\ HasWritable
     /\ CurCmd.Verb = W_APPEND
     /\ CurMailbox /= <<>>
     /\ FolderWritable(Accounts[account], CurMailbox)) =>
        /\ cur.act /= "Block"
        /\ CurReplies = <<>>
        /\ pcC /= "discard"
        /\ \/ CurUpstream /= <<>> /\ CurUpstream[1].data = cur.raw
           \/ UpstreamGone
        /\ (pcC = "c2u" /\ ~UpstreamGone /\ ~ClientGone) =>
                Flatten(CurUpstream) = SubSeq(csent, cur.start + 1, cpos)

(***************************************************************************)
(* C11: STORE and UID STORE are rejected locally when the selected folder  *)
(* is not writable or no folder has been selected (also when a writable    *)
(* folder was selected earlier and a non-writable one since), and APPEND   *)
(* to a non-writable mailbox is rejected locally; in each case nothing     *)
(* reaches upstream.                                                       *)
(***************************************************************************)
\* The reject line of the read-only policy for the command of cur
CurRejectLine ==
    CurCmd.Tag \o (IF CurCmd.Verb = W_UID THEN MsgUIDNotAllowed
                   ELSE MsgNO \o CurCmd.Verb \o MsgNotAllowed)

\* cur was rejected by the read-only policy: the reject line went to the
\* client (unless the client is gone) and nothing went upstream
CurRejectedLocally ==
    /\ cur.act = "Block"
    /\ CurUpstream = <<>>
    /\ \/ CurReplies = <<[by |-> "main", data |-> CurRejectLine]>>
       \/ CurReplies = <<>> /\ ClientGone

C11_NonWritableStaysReadOnly ==
    /\ (/\ PolicyHandled
        /\ \/ CurCmd.Verb = W_STORE
           \/ CurCmd.Verb = W_UID /\ CurCmd.SubVerb = W_STORE
        /\ \/ ~HasWritable
           \/ SelectedFolder = <<>>
           \/ ~FolderWritable(Accounts[account], SelectedFolder)) => CurRejectedLocally
    /\ (/\ PolicyHandled
        /\ CurCmd.Verb = W_APPEND
        /\ \/ ~HasWritable
           \/ CurMailbox = <<>>
           \/ ~FolderWritable(Accounts[account], CurMailbox)) => CurRejectedLocally

\* On the account with writable Drafts, Drafts and then INBOX were selected,
\* and the STORE that followed was refused
C11_Witness ==
    /\ PolicyHandled /\ account = 4
    /\ Len(ForwardedSelects) = 2
    /\ extractCommandMailbox(ParseCommand(ForwardedSelects[1].data)).mailbox = F_Drafts
    /\ SelectedFolder = W_INBOX
    /\ cur.raw = Line(T_b, W_STORE \o <<SP, "1">>)
    /\ CurReplies = <<[by |-> "main", data |-> T_b \o MsgNO \o W_STORE \o MsgNotAllowed]>>
    /\ CurUpstream = <<>>

(***************************************************************************)
(* C12: COPY, MOVE, DELETE, EXPUNGE, CREATE, RENAME, SUBSCRIBE,            *)
(* UNSUBSCRIBE, AUTHENTICATE and UID COPY/MOVE/EXPUNGE are rejected        *)
(* locally and never reach upstream, for every account, whatever folder is *)
(* selected and whatever the command's target, a writable folder           *)
(* included; before authentication nothing but the proxy's own LOGIN is    *)
(* written to an upstream.                                                 *)
(***************************************************************************)
C12_OtherBlocksStay ==
    /\ (/\ PolicyHandled
        /\ \/ CurCmd.Verb \in {W_COPY, W_MOVE, W_DELETE, W_EXPUNGE, W_CREATE, W_RENAME,
                               W_SUBSCRIBE, W_UNSUBSCRIBE, W_AUTHENTICATE}
           \/ CurCmd.Verb = W_UID /\ CurCmd.SubVerb \in {W_COPY, W_MOVE, W_EXPUNGE})
            => CurRejectedLocally
    /\ state /= "Auth" => \A i \in 1..Len(uout) : uout[i].kind = "login"

\* With the writable Drafts selected, UID MOVE to Drafts was refused
C12_Witness ==
    /\ PolicyHandled /\ account = 4
    /\ SelectedFolder = F_Drafts
    /\ CurCmd.Verb = W_UID /\ CurCmd.SubVerb = W_MOVE
    /\ CurMailbox /= <<>>
    /\ CurReplies = <<[by |-> "main", data |-> T_b \o MsgUIDNotAllowed]>>
    /\ CurUpstream = <<>>

(***************************************************************************)
(* C13: when a blocked command carries a non-synchronizing literal {N+}    *)
(* and the client sends the N literal bytes followed by the command's      *)
(* terminating CRLF, the client gets the reject line and upstream receives *)
(* nothing at all for that command: not the line, not the literal bytes,   *)
(* not the trailing CRLF.                                                  *)
(***************************************************************************)
\* What the client has sent behind its LOGIN, when the LOGIN came first
AfterLogin == From(csent, Len(login.raw) + 1)

\* The client has sent, right behind its LOGIN, exactly one blocked command
\* with a {N+} literal, the N bytes and the closing CRLF
OneBlockedLiteralCommand ==
    /\ state = "Auth" /\ ~HasWritable
    /\ HasPrefix(csent, login.raw)
    /\ HasLine(AfterLogin)
    /\ LET line == FirstLine(AfterLogin)
           lit  == ParseLiteral(line)
       IN  /\ ParseCommand(line).err = "nil"
           /\ Filter(ParseCommand(line)).Action = Block
           /\ lit.ok /\ lit.nonSync
           /\ Len(AfterLogin) = Len(line) + lit.n + 2
           /\ From(AfterLogin, Len(line) + lit.n + 1) = CRLF

C13_BlockedLiteralLeavesNothing ==
    OneBlockedLiteralCommand =>
        /\ \A i \in 1..Len(uout) : uout[i].kind = "login"
        /\ (cpos = Len(csent) /\ ~ClientGone) =>
            \E i \in 1..Len(cout) :
                cout[i] = [by |-> "main",
                           data |-> Filter(ParseCommand(FirstLine(AfterLogin))).RejectMsg]

(***************************************************************************)
(* C14: for every accepted client connection exactly one greeting line is  *)
(* written to the client, and it is written before the session reads any   *)
(* client byte; if writing the greeting fails the session ends without     *)
(* reading.                                                                *)
(***************************************************************************)
GreetingWrites ==
    SelectSeq(cout, LAMBDA w : w.by = "main" /\ w.data = MsgGreeting)

\* The greeting could not be written: nothing was read, nothing else was
\* written, and Run has returned
GreetingFailed ==
    /\ state = "Greeting" /\ pcC = "done"
    /\ cout = <<>> /\ cpos = 0 /\ uout = <<>>
    /\ clientCloses = 1

C14_OneGreetingFirst ==
    /\ pcC = "greeting" => cout = <<>> /\ cpos = 0
    /\ pcC /= "greeting" =>
        \/ GreetingFailed
        \/ /\ Len(GreetingWrites) = 1
           /\ cout[1] = [by |-> "main", data |-> MsgGreeting]
    /\ cpos > 0 => cout /= <<>> /\ cout[1].data = MsgGreeting

C14_Witness ==
    /\ cpos > 0 /\ Len(cout) > 1
    /\ Len(GreetingWrites) = 1
    /\ cout[1] = [by |-> "main", data |-> MsgGreeting]

(***************************************************************************)
(* C15: the greeting line the proxy sends on a new connection is exactly   *)
(* '* OK imap-proxy ready\r\n'.                                            *)
(***************************************************************************)
C15_GreetingText ==
    cout /= <<>> =>
        cout[1].data = <<"*", SP, "O", "K", SP, "i", "m", "a", "p", "-", "p", "r", "o", "x", "y",
                         SP, "r", "e", "a", "d", "y", CR, LF>>

(***************************************************************************)
(* C16: in Authenticated state a LOGOUT command is answered locally with   *)
(* the untagged BYE line followed by '<tag> OK LOGOUT completed', the      *)
(* LOGOUT line is never written to upstream, and the session then tears    *)
(* down with both the client and the upstream connection closed.           *)
(***************************************************************************)
LogoutHandled == state = "Auth" /\ cur.act = "LOGOUT"

LogoutLocal ==
    LogoutHandled =>
        /\ CurCmd.Verb = W_LOGOUT
        /\ CurUpstream = <<>>
        /\ \A i \in 1..Len(uout) : uout[i].data /= cur.raw
        /\ \/ CurReplies = <<[by |-> "main", data |-> MsgBye],
                             [by |-> "main", data |-> CurCmd.Tag \o MsgOKLogout]>>
           \/ CurReplies = <<>> /\ ClientGone
        /\ pcC \in {"cleanup", "join", "done"}
        /\ pcC \in {"join", "done"} => clientCloses > 0 /\ upstreamCloses > 0

TornDown ==
    /\ pcC = "done" /\ pcU = "done"
    /\ clientCloses > 0 /\ upstreamCloses > 0

C16_LogoutTearsDown == [](LogoutLocal) /\ (LogoutHandled ~> TornDown)

C16_Witness ==
    /\ LogoutHandled /\ TornDown
    /\ CurReplies = <<[by |-> "main", data |-> MsgBye],
                      [by |-> "main", data |-> T_b \o MsgOKLogout]>>
    /\ CurUpstream = <<>>

(***************************************************************************)
(* C17: a local rejection never ends the session: after any number of      *)
(* commands rejected by the read-only policy or by the folder gate, the    *)
(* session is still Authenticated and the next allowed client command is   *)
(* forwarded to upstream and its response returned to the client.          *)
(***************************************************************************)
\* The last command read was rejected locally, by the policy or by the gate
JustRejected == state = "Auth" /\ cur.act \in {"Block", "FolderNO"}

\* The reject lines the client has been sent so far
IsRejectLine(w) ==
    /\ w.by = "main"
    /\ \E k \in 1..Len(w.data) :
        From(w.data, k) \in {MsgNotAllowed, MsgUIDNotAllowed, MsgNOFolder}

Rejections == Len(SelectSeq(cout, IsRejectLine))

\* The command of cur went to upstream as the first write behind its read
CurForwarded ==
    /\ CurUpstream /= <<>>
    /\ CurUpstream[1].kind = "cmd"
    /\ CurUpstream[1].data =
         (IF cur.act = "Rewrite" THEN Filter(CurCmd).Rewritten ELSE cur.raw)

C17_RejectionKeepsSession ==
    /\ JustRejected =>
        /\ pcC \in {"c2u", "discard"}
        /\ upstreamConn /= "nil"
        /\ (~clientEOF /\ ~upEOF) =>
            /\ clientCloses = 0 /\ upstreamCloses = 0
            /\ pcU \in {"read", "lit"}
    /\ (Rejections > 0 /\ state = "Auth" /\ cur.act \in {"Allow", "Rewrite"}) =>
        /\ CurForwarded \/ (CurUpstream = <<>> /\ UpstreamGone)
        /\ ~ClientGone => Flatten(U2CWrites) = ClientView(SubSeq(usent, 1, upos))

C17_Witness ==
    /\ state = "Auth" /\ account = 3
    /\ Rejections = 2
    /\ cur.act = "Allow" /\ CurForwarded
    /\ cur.raw = Line(T_b, W_STATUS \o <<SP>> \o W_INBOX \o <<SP, "(", "U", ")">>)
    /\ Len(cout) > cur.coutLen
    /\ cout[Len(cout)] = [by |-> "u2c", data |-> Line(T_b, <<"O", "K">>)]

(***************************************************************************)
(* C18: on a client IDLE command the line is forwarded to upstream, then   *)
(* every following client line is forwarded to upstream until a line that  *)
(* equals DONE case-insensitively after stripping CR/LF; that DONE line is *)
(* forwarded too, and from the next client line on the normal command loop *)
(* (parsing and policy filtering) is in force again.                       *)
(***************************************************************************)
IsDoneLine(l) == ToLower(TrimRightCRLF(l)) = ToLower(W_DONE)

\* The client bytes read since the IDLE line of cur, that line included
IdleRead == SubSeq(csent, cur.start + 1, cpos)

\* The lines forwarded behind the IDLE line of cur
IdleForwarded == Tail(CurUpstream)

C18_IdleExchange ==
    /\ pcC = "idle" => state = "Auth" /\ cur.act = "IDLE"
    /\ (state = "Auth" /\ cur.act = "IDLE" /\ pcC \in {"idle", "c2u"}) =>
        /\ CurCmd.Verb = W_IDLE
        /\ CurUpstream /= <<>> /\ CurUpstream[1].data = cur.raw
        /\ \A i \in 1..Len(CurUpstream) :
            CurUpstream[i].kind = "idle" /\ HasLine(CurUpstream[i].data)
        /\ Flatten(CurUpstream) = IdleRead
        /\ \A i \in 1..Len(IdleForwarded) :
            IsDoneLine(IdleForwarded[i].data) <=>
                (pcC = "c2u" /\ i = Len(IdleForwarded))
        /\ pcC = "c2u" => IdleForwarded /= <<>>
    /\ (PolicyHandled /\ cur.act = "Block") => CurUpstream = <<>>

C18_Witness ==
    /\ state = "Auth" /\ account = 1
    /\ cur.act = "Block" /\ cur.raw = Line(T_b, W_STORE \o <<SP, "1">>)
    /\ CurUpstream = <<>>
    /\ CurReplies = <<[by |-> "main", data |-> CurRejectLine]>>
    /\ Len(uout) = 4
    /\ uout[2].kind = "idle" /\ uout[2].data = Line(T_b, W_IDLE)
    /\ uout[3].kind = "idle" /\ uout[3].data = Line(T_b, W_STORE \o <<SP, "1">>)
    /\ uout[4].kind = "idle" /\ uout[4].data = MixedCase(W_DONE) \o CRLF

(***************************************************************************)
(* C19: IMAP-quoting a string with quoteIMAPString and then parsing the    *)
(* result with the one-argument rule (parseOneArg) returns the original    *)
(* string, for every string over printable ASCII including double quotes   *)
(* and backslashes.                                                        *)
(***************************************************************************)
C19_QuoteRoundTrip ==
    (pfn = "QuoteParse" /\ pout /= NoResult) =>
        /\ pout.parsed.err = "nil"
        /\ pout.parsed.token = pin
        /\ pout.parsed.rest = <<>>

(***************************************************************************)
(* C20: ParseLiteral reports a literal iff, after stripping trailing       *)
(* CR/LF, the line ends with '}', a '{' occurs before it, and the text     *)
(* between them is one or more decimal digits optionally followed by a     *)
(* single '+'; the reported count is the value of the digits (0 is valid), *)
(* non-sync is true iff the '+' is present, and no literal is reported for *)
(* '{}', '{+}', non-digit content, a signed or negative number, or a count *)
(* that does not fit in 64 bits.                                           *)
(***************************************************************************)
RECURSIVE StripLineEnd(_)
StripLineEnd(s) ==
    IF Len(s) > 0 /\ s[Len(s)] \in {CR, LF} THEN StripLineEnd(SubSeq(s, 1, Len(s) - 1)) ELSE s

\* The positions of '{' before the last byte of s
OpenBraces(s) == {i \in 1..(Len(s) - 1) : s[i] = "{"}

LastOpenBrace(s) == CHOOSE i \in OpenBraces(s) : \A j \in OpenBraces(s) : j <= i

AllDigits(s) ==
    Len(s) > 0 /\ \A i \in 1..Len(s) : s[i] \in {"0", "1", "2", "3", "4", "5", "6", "7", "8", "9"}

FitsInt64(ds) ==
    \/ Len(StripZeros(ds)) < Len(MaxInt64Digits)
    \/ Len(StripZeros(ds)) = Len(MaxInt64Digits) /\ DigitsLeq(StripZeros(ds), MaxInt64Digits)

C20_LiteralShape ==
    (pfn = "ParseLiteral" /\ pout /= NoResult) =>
        LET data   == StripLineEnd(pin)
            braced == Len(data) > 0 /\ data[Len(data)] = "}" /\ OpenBraces(data) /= {}
            text   == IF braced THEN SubSeq(data, LastOpenBrace(data) + 1, Len(data) - 1)
                      ELSE <<>>
            plus   == Len(text) > 0 /\ text[Len(text)] = "+"
            digits == IF plus THEN SubSeq(text, 1, Len(text) - 1) ELSE text
            shape  == braced /\ AllDigits(digits) /\ FitsInt64(digits)
        IN  /\ pout.ok <=> shape
            /\ pout.ok => pout.n = DecValue(StripZeros(digits)) /\ (pout.nonSync <=> plus)
            /\ ~pout.ok => pout.n = 0 /\ ~pout.nonSync

(***************************************************************************)
(* C21: ParseCommand fails for an empty line, for a single token other     *)
(* than DONE (any case), and for an empty tag or empty verb; otherwise tag *)
(* is the bytes before the first space, verb is the next space-delimited   *)
(* token upper-cased, sub-verb is the following token upper-cased only     *)
(* when the verb is UID (else empty), Raw equals the input byte-for-byte,  *)
(* and the tag is empty only for the tagless DONE; a missing trailing CRLF *)
(* does not change the result.                                             *)
(***************************************************************************)
\* The bytes of s before its first space (all of s when it has none), and
\* the bytes behind that space
TokenOf(s) ==
    IF \E i \in 1..Len(s) : s[i] = SP
    THEN SubSeq(s, 1, (CHOOSE i \in 1..Len(s) : s[i] = SP /\ \A j \in 1..(i - 1) : s[j] /= SP) - 1)
    ELSE s

BehindToken(s) == SubSeq(s, Len(TokenOf(s)) + 2, Len(s))

C21_ParseCommand ==
    (pfn = "ParseCommand" /\ pout /= NoResult) =>
        LET data     == StripLineEnd(pin)
            oneToken == TokenOf(data) = data
            tag      == TokenOf(data)
            verb     == ToUpper(TokenOf(BehindToken(data)))
            subVerb  == ToUpper(TokenOf(BehindToken(BehindToken(data))))
            fails    == \/ data = <<>>
                        \/ oneToken /\ ToUpper(data) /= <<"D", "O", "N", "E">>
                        \/ ~oneToken /\ (tag = <<>> \/ verb = <<>>)
            cmd      == pout.cmd
        IN  /\ (cmd.err /= "nil") <=> fails
            /\ cmd.err = "nil" =>
                /\ cmd.Raw = pin
                /\ IF oneToken
                   THEN cmd.Tag = <<>> /\ cmd.Verb = <<"D", "O", "N", "E">> /\ cmd.SubVerb = <<>>
                   ELSE /\ cmd.Tag = tag /\ cmd.Tag /= <<>>
                        /\ cmd.Verb = verb
                        /\ cmd.SubVerb = (IF verb = <<"U", "I", "D">> THEN subVerb ELSE <<>>)
            /\ pout.bare.err = cmd.err
            /\ pout.bare.Tag = cmd.Tag /\ pout.bare.Verb = cmd.Verb
            /\ pout.bare.SubVerb = cmd.SubVerb

C21_Witness ==
    /\ pfn = "ParseCommand" /\ pout /= NoResult
    /\ pin = <<"a", SP>> \o MixedCase(W_UID) \o <<SP>> \o ToLower(W_FETCH) \o <<SP, "1">> \o CRLF
    /\ pout.cmd = [err |-> "nil", Tag |-> <<"a">>, Verb |-> W_UID, SubVerb |-> W_FETCH, Raw |-> pin]
    /\ pout.bare.Raw = StripLineEnd(pin)

(***************************************************************************)
(* C22: FolderAllowed(name) is true with no lists configured, is 'name     *)
(* matches some entry' with an allow-list, and is 'name matches no entry'  *)
(* with a block-list, where a name matches an entry iff, after upper-      *)
(* casing a leading INBOX token (first 5 bytes followed by end of string,  *)
(* '/' or '.') on both sides, the two are byte-equal or the name starts    *)
(* with the entry followed by '/' or '.'; so a child of a listed folder    *)
(* matches, the parent of a listed child does not, and all bytes outside   *)
(* the INBOX token are case-sensitive.                                     *)
(***************************************************************************)
\* s with a leading INBOX token in capitals
InboxFolded(s) ==
    IF /\ Len(s) >= 5
       /\ [i \in 1..5 |-> UpperByte(s[i])] = <<"I", "N", "B", "O", "X">>
       /\ (Len(s) = 5 \/ s[6] \in {"/", "."})
    THEN <<"I", "N", "B", "O", "X">> \o SubSeq(s, 6, Len(s))
    ELSE s

NameMatches(name, entry) ==
    LET n == InboxFolded(name)
        e == InboxFolded(entry)
    IN  \/ n = e
        \/ /\ Len(n) > Len(e)
           /\ SubSeq(n, 1, Len(e)) = e
           /\ n[Len(e) + 1] \in {"/", "."}

C22_FolderAllowed ==
    (pfn = "FolderAllowed" /\ pout /= NoResult) =>
        LET allow == pin.acct.AllowedFolders
            block == pin.acct.BlockedFolders
            child == F_Trash \o <<"/", "x">>
        IN  /\ (allow = <<>> /\ block = <<>>) => pout.allowed
            /\ allow /= <<>> =>
                (pout.allowed <=> \E i \in 1..Len(allow) : NameMatches(pin.name, allow[i]))
            /\ block /= <<>> =>
                (pout.allowed <=> ~\E i \in 1..Len(block) : NameMatches(pin.name, block[i]))
            /\ (allow = <<F_Trash>> /\ pin.name = child) => pout.allowed
            /\ (block = <<F_Trash>> /\ pin.name = child) => ~pout.allowed
            /\ (allow = <<child>> /\ pin.name = F_Trash) => ~pout.allowed
            /\ (block = <<child>> /\ pin.name = F_Trash) => pout.allowed
            /\ (allow = <<F_Trash>> /\ pin.name = ToLower(F_Trash)) => ~pout.allowed
            /\ (allow = <<F_Trash>> /\ pin.name = F_Trash \o <<"y">>) => ~pout.allowed

C22_Witness ==
    /\ pfn = "FolderAllowed" /\ pout /= NoResult
    /\ pin.acct.BlockedFolders = <<ToLower(W_INBOX)>>
    /\ pin.name = N_Inbox \o <<"/", "x">>
    /\ ~pout.allowed

(***************************************************************************)
(* C23: every configuration that Load returns without error satisfies,     *)
(* for each account: allowed_folders and blocked_folders are not both      *)
(* non-empty, remote_tls and remote_starttls are not both true, every      *)
(* writable_folders entry passes FolderAllowed for that account, and no    *)
(* two accounts share a local_user; a configuration violating any of       *)
(* these is rejected with an error.                                        *)
(***************************************************************************)
ValidAccount(a) ==
    /\ ~(a.AllowedFolders /= <<>> /\ a.BlockedFolders /= <<>>)
    /\ ~(a.RemoteTLS /\ a.RemoteStartTLS)
    /\ \A i \in 1..Len(a.WritableFolders) :
        IF a.AllowedFolders /= <<>>
        THEN \E j \in 1..Len(a.AllowedFolders) :
                NameMatches(a.WritableFolders[i], a.AllowedFolders[j])
        ELSE \A j \in 1..Len(a.BlockedFolders) :
                ~NameMatches(a.WritableFolders[i], a.BlockedFolders[j])

ValidConfig(c) ==
    /\ \A i \in 1..Len(c) : ValidAccount(c[i])
    /\ \A i, j \in 1..Len(c) : c[i].LocalUser = c[j].LocalUser => i = j

C23_LoadValidates ==
    (pfn = "Load" /\ pout /= NoResult) => (pout.err = "nil" <=> ValidConfig(pin))

C23_Witness ==
    /\ pfn = "Load" /\ pout /= NoResult
    /\ Len(pin) = 2
    /\ ValidAccount(pin[1]) /\ pin[1].WritableFolders /= <<>>
    /\ pin[2].RemoteTLS /\ pin[2].RemoteStartTLS
    /\ pin[2].LocalUser /= pin[1].LocalUser
    /\ pout.err = "tls"

(***************************************************************************)
(* C24: LoginUpstream writes 'proxy0 LOGIN <quoted user> <quoted           *)
(* password>', skips every response line that does not begin with          *)
(* 'proxy0 ', and succeeds iff the upstream's tagged proxy0 response is an *)
(* OK completion; a tagged NO or BAD response is reported as login-failed  *)
(* whatever text follows the status word, and a read error before the      *)
(* tagged line is an error.                                                *)
(***************************************************************************)
\* The first whole line of s that begins with 'proxy0 ', or <<>>
RECURSIVE TaggedResponse(_)
TaggedResponse(s) ==
    IF ~\E i \in 1..Len(s) : s[i] = LF THEN <<>>
    ELSE LET n    == CHOOSE i \in 1..Len(s) : s[i] = LF /\ \A j \in 1..(i - 1) : s[j] /= LF
             line == SubSeq(s, 1, n)
         IN  IF Len(line) >= 7 /\ SubSeq(line, 1, 7) = <<"p", "r", "o", "x", "y", "0", SP>>
             THEN line
             ELSE TaggedResponse(SubSeq(s, n + 1, Len(s)))

\* The status word of a tagged line: the token behind the tag
StatusWord(line) == TokenOf(StripLineEnd(SubSeq(line, 8, Len(line))))

C24_UpstreamLogin ==
    (pfn = "LoginUpstream" /\ pout /= NoResult) =>
        LET a      == Accounts[pin.acct]
            tagged == TaggedResponse(pin.resp)
        IN  /\ pout.sent = <<"p", "r", "o", "x", "y", "0", SP, "L", "O", "G", "I", "N", SP>>
                            \o quoteIMAPString(a.RemoteUser) \o <<SP>>
                            \o quoteIMAPString(a.RemotePassword) \o CRLF
            /\ pout.res.err = "nil" <=> (tagged /= <<>> /\ StatusWord(tagged) = <<"O", "K">>)
            /\ (tagged /= <<>> /\ StatusWord(tagged) \in {<<"N", "O">>, <<"B", "A", "D">>}) =>
                pout.res.err = "error"
            /\ tagged = <<>> => pout.res.err = "error"

(***************************************************************************)
(* C25: in NotAuthenticated state CAPABILITY, NOOP, LOGOUT, every other    *)
(* verb and every unparseable line are answered locally and never cause an *)
(* upstream dial: CAPABILITY yields the CAPABILITY line then '<tag> OK     *)
(* CAPABILITY completed', NOOP yields '<tag> OK NOOP completed', any verb  *)
(* other than these and LOGIN (and any unparseable line, with a best-      *)
(* effort tag) yields '<tag> BAD command not recognized' and the loop      *)
(* continues; only LOGOUT, which yields BYE then '<tag> OK LOGOUT          *)
(* completed', ends the session.                                           *)
(***************************************************************************)
\* A line that the pre-auth loop does not hand to handleLogin
NotLoginLine(raw) ==
    raw /= <<>> /\ (ParseCommand(raw).err /= "nil" \/ ParseCommand(raw).Verb /= W_LOGIN)

\* The tag of the BAD answer to a line that does not parse: the line's first
\* token, or '*' for a blank line
BestEffortTag(raw) ==
    LET t == TokenOf(StripLineEnd(raw))
    IN  IF t = <<>> THEN <<"*">> ELSE t

\* The answer of the pre-auth loop to a line
PreAuthReply(raw) ==
    LET cmd == ParseCommand(raw)
    IN  IF cmd.err /= "nil" THEN <<BestEffortTag(raw) \o MsgBadCommand>>
        ELSE IF cmd.Verb = W_CAPABILITY THEN <<MsgCapability, cmd.Tag \o MsgOKCapability>>
        ELSE IF cmd.Verb = W_NOOP THEN <<cmd.Tag \o MsgOKNoop>>
        ELSE IF cmd.Verb = W_LOGOUT THEN <<MsgBye, cmd.Tag \o MsgOKLogout>>
        ELSE <<cmd.Tag \o MsgBadCommand>>

PreAuthLocal ==
    (state = "NotAuth" /\ NotLoginLine(cur.raw)) =>
        /\ CurUpstream = <<>> /\ upstreamConn = "nil"
        /\ \/ CurReplies = [i \in 1..Len(PreAuthReply(cur.raw)) |->
                                [by |-> "main", data |-> PreAuthReply(cur.raw)[i]]]
           \/ CurReplies = <<>> /\ ClientGone
        /\ IF CurCmd.err = "nil" /\ CurCmd.Verb = W_LOGOUT
           THEN pcC = "done" /\ clientCloses > 0
           ELSE pcC = "preauth" /\ clientCloses = 0

PreAuthNoDial ==
    (state = "NotAuth" /\ cur' /= cur /\ NotLoginLine(cur'.raw)) =>
        /\ dials' = dials /\ abandoned' = abandoned
        /\ uout' = uout /\ upstreamConn' = upstreamConn
        /\ state' = "NotAuth"

C25_PreAuthLocal == [](PreAuthLocal) /\ [][PreAuthNoDial]_vars

C25_Witness ==
    /\ state = "NotAuth" /\ pcC = "preauth" /\ dials = 0 /\ uout = <<>>
    /\ cur.raw = Line(T_a, W_FETCH \o <<SP, "1">>)
    /\ cout = <<[by |-> "main", data |-> MsgGreeting],
                [by |-> "main", data |-> MsgCapability],
                [by |-> "main", data |-> T_a \o MsgOKCapability],
                [by |-> "main", data |-> T_a \o MsgBadCommand]>>

(***************************************************************************)
(* C26: after Server.Close is called, Serve/ListenAndServe eventually      *)
(* returns, with a nil error, and no further connection is accepted; this  *)
(* holds under every interleaving of Close with server start-up, including *)
(* a Close that runs before the listener has been stored.                  *)
(***************************************************************************)
CloseReturned == sigPc = "done"

ServeReturnedNil == srvPc \in {"returned", "exited"} /\ srvErr = "nil"

NoAcceptAfterClose == CloseReturned => sessions' = sessions \/ Len(sessions') = Len(sessions)

C26_CloseStopsServe ==
    /\ (CloseReturned /\ lstate /= "none") ~> ServeReturnedNil
    /\ [][NoAcceptAfterClose]_vars

(***************************************************************************)
(* C27: Server.Close affects only the listener: every session that was     *)
(* accepted before Close keeps both of its connections open and keeps      *)
(* forwarding until its own client or upstream I/O ends.                   *)
(***************************************************************************)
C27_CloseLeavesSessions ==
    sigPc \in {"call", "done"} =>
        \A i \in 1..Len(sessions) : sessions[i] \in {"running", "ended"}

(***************************************************************************)
(* C28: once either post-auth forwarder has returned (client end or error, *)
(* upstream end or error, or a local LOGOUT) the other one returns too,    *)
(* and runPostAuth returns only after the upstream-to-client goroutine has *)
(* finished: no forwarder stays blocked on a read, a write or a literal    *)
(* copy, and no goroutine outlives the session.  A run-time panic of the   *)
(* command loop ends the whole process and is not a forwarder that blocks. *)
(***************************************************************************)
\* clientToUpstream has returned, or the goroutine's loop has
ForwarderReturned ==
    state = "Auth" /\ (pcC \in {"cleanup", "join", "done"} \/ pcU \in {"exit", "done"})

BothReturned == pcC = "done" /\ pcU = "done"

JoinedBeforeReturn == (state = "Auth" /\ pcC = "done") => pcU = "done"

C29_ClosedExactlyOnce ==
    state = "Auth" =>
        /\ clientCloses <= 1 /\ upstreamCloses <= 1
        /\ pcC = "done" => clientCloses = 1 /\ upstreamCloses = 1

(***************************************************************************)
(* C30: for every Allow or Rewrite command upstream receives the (original *)
(* or rewritten) line, then for each declared literal exactly N client     *)
(* bytes followed by the next client line, repeated until a forwarded line *)
(* declares no literal; these bytes arrive in client order with nothing    *)
(* inserted between them, and the continuation lines and literal bytes are *)
(* not parsed as commands.                                                 *)
(***************************************************************************)
\* The command of cur was forwarded and no read or write has failed since
Forwarding ==
    /\ state = "Auth" /\ cur.act \in {"Allow", "Rewrite"}
    /\ pcC \in {"c2u", "copylit", "nextline"}

\* The line that is forwarded for the command of cur
ForwardedLine == IF cur.act = "Rewrite" THEN Filter(CurCmd).Rewritten ELSE cur.raw

\* The client bytes taken from the stream behind the line of cur
ClientSince == SubSeq(csent, CurEnd + 1, cpos)

\* bytes are what follows a forwarded line: nothing if the line declares no
\* literal, else its N bytes and one whole line, which is looked at the same
\* way; pc is where the loop stands when the bytes stop short of that
RECURSIVE LiteralShape(_, _, _)
LiteralShape(line, bytes, pc) ==
    IF ~ParseLiteral(line).ok THEN bytes = <<>> /\ pc = "c2u"
    ELSE LET n == ParseLiteral(line).n
             rest == From(bytes, n + 1)
         IN  IF Len(bytes) < n THEN pc = "copylit" /\ litC = n - Len(bytes)
             ELSE IF rest = <<>> THEN pc \in {"copylit", "nextline"}
             ELSE /\ HasLine(rest)
                  /\ LiteralShape(FirstLine(rest),
                                  From(rest, Len(FirstLine(rest)) + 1), pc)

C30_ForwardWithLiterals ==
    Forwarding =>
        /\ CurUpstream /= <<>>
        /\ CurUpstream[1] = [conn |-> dials, kind |-> "cmd", data |-> ForwardedLine]
        /\ \A i \in 2..Len(CurUpstream) : CurUpstream[i].kind \in {"lit", "cont"}
        /\ Flatten(Tail(CurUpstream)) = ClientSince
        /\ LiteralShape(ForwardedLine, ClientSince, pcC)
        /\ CurReplies = <<>>

\* A command with two literals in a row, and one whose continuation line
\* reads like a blocked command: all of it went upstream as sent
C30_Witness ==
    /\ Forwarding /\ pcC = "c2u"
    /\ cur.raw = Line(T_b, W_SEARCH \o <<SP, "{", "3", "}">>)
    /\ ClientSince = <<"a", "b", "c", SP, "{", "3", "}">> \o CRLF \o L_abc
    /\ Flatten(CurUpstream) = cur.raw \o ClientSince

(***************************************************************************)
(* C31: on the client stream the bytes of every upstream literal follow    *)
(* their announcing upstream line with no other bytes in between, under    *)
(* every interleaving of the two forwarders, also when the command loop    *)
(* writes a local reply while the upstream reader is between writing a     *)
(* line and copying its literal.                                           *)
(***************************************************************************)
\* The upstream reader has written a line that declares a literal and has
\* not yet copied all of its bytes to the client
MidLiteral == state = "Auth" /\ pcU = "lit" /\ ~litU.filtered /\ litU.n > 0

C31_LiteralFollowsLine ==
    MidLiteral => cout /= <<>> /\ cout[Len(cout)].by = "u2c"

(***************************************************************************)
(* C32: in the upstream-to-client direction, after every line that         *)
(* declares a literal of N bytes exactly N upstream bytes are transferred  *)
(* before the next line is read: to the client when the line was           *)
(* forwarded, to a discard sink when it was suppressed; literal content is *)
(* never examined by the LIST/LSUB filter or the literal detector, and no  *)
(* byte of a suppressed line's literal reaches the client.                 *)
(***************************************************************************)
\* The upstream bytes the goroutine has taken so far
UpstreamRead == SubSeq(usent, 1, upos)

\* s is made of lines, each followed by the N bytes it declares; where s
\* stops inside a literal the goroutine is copying the rest of it, to the
\* sink of its line, or has returned on an error
RECURSIVE UpstreamShape(_)
UpstreamShape(s) ==
    IF s = <<>> THEN pcU \in {"read", "exit", "done"} \/ (pcU = "lit" /\ litU.n = 0)
    ELSE LET line == HeadLine(s)
             rest == From(s, Len(line) + 1)
             lit  == ParseLiteral(line)
         IN  IF ~lit.ok THEN UpstreamShape(rest)
             ELSE IF Len(rest) < lit.n
                  THEN \/ /\ pcU = "lit"
                          /\ litU = [n |-> lit.n - Len(rest), filtered |-> LineWithheld(line)]
                       \/ pcU \in {"exit", "done"}
                  ELSE UpstreamShape(From(rest, lit.n + 1))

IsPrefixOf(p, s) == Len(p) <= Len(s) /\ SubSeq(s, 1, Len(p)) = p

C32_UpstreamLiterals ==
    state = "Auth" =>
        /\ UpstreamShape(UpstreamRead)
        /\ IsPrefixOf(Flatten(U2CWrites), ClientView(UpstreamRead))
        /\ (~ClientGone /\ pcU \in {"read", "lit"}) =>
                Flatten(U2CWrites) = ClientView(UpstreamRead)

\* A LIST line of a hidden folder that declares a literal: its three bytes
\* were taken from upstream and the client has nothing of line or literal
C32_Witness ==
    /\ state = "Auth" /\ account = 2 /\ pcU = "read" /\ ~ClientGone
    /\ UpstreamRead = ListLine(W_LIST, <<"{", "3", "}">>) \o <<"a", "b", "c">>
    /\ U2CWrites = <<>>

(***************************************************************************)
(* C33: in Authenticated state a client line that ParseCommand rejects (an *)
(* empty line, a single token other than DONE, a line with an empty tag or *)
(* verb) is written to upstream byte for byte, no reply is sent to the     *)
(* client, and the command loop continues with the next line.              *)
(***************************************************************************)
\* The command loop takes a line that does not parse
TakesUnparseable ==
    /\ state = "Auth" /\ pcC = "c2u" /\ HasLine(cin)
    /\ ParseCommand(FirstLine(cin)).err /= "nil"
    /\ cpos' /= cpos

PassedThrough ==
    TakesUnparseable =>
        /\ cur'.raw = FirstLine(cin) /\ cur'.act = "Unparsed"
        /\ cout' = cout
        /\ \/ uout' = Append(uout, [conn |-> dials, kind |-> "raw", data |-> FirstLine(cin)])
              /\ pcC' = "c2u"
           \/ UpstreamGone /\ uout' = uout /\ pcC' = "cleanup"

UnparsedOnly ==
    (state = "Auth" /\ cur.act = "Unparsed") =>
        /\ ParseCommand(cur.raw).err /= "nil"
        /\ CurReplies = <<>>
        /\ pcC = "c2u" => CurUpstream = <<[conn |-> dials, kind |-> "raw", data |-> cur.raw]>>

C33_UnparseablePassesThrough == [](UnparsedOnly) /\ [][PassedThrough]_vars

\* An empty line, a tag without a verb and a line without a tag, one after
\* the other: each went upstream as it was and the loop reads on
C33_Witness ==
    /\ state = "Auth" /\ pcC = "c2u" /\ cur.act = "Unparsed"
    /\ cur.raw = <<SP, "x">> \o CRLF
    /\ Len(uout) >= 3
    /\ Flatten(SubSeq(uout, Len(uout) - 2, Len(uout)))
         = CRLF \o T_b \o <<SP>> \o CRLF \o <<SP, "x">> \o CRLF
    /\ \A i \in (Len(uout) - 2)..Len(uout) : uout[i].kind = "raw"
    /\ HasLine(cin)

(***************************************************************************)
(* C34: in STARTTLS mode the steps happen in this order: read the          *)
(* plaintext greeting, send 'proxy0 STARTTLS', read one response that      *)
(* contains ' OK', complete the TLS handshake, read a greeting beginning   *)
(* with '* OK' or '* PREAUTH', and only then write the 'proxy0 LOGIN' line *)
(* with the remote credentials; if any step fails the connection is        *)
(* closed, the LOGIN line is never written, and the client sees 'NO LOGIN  *)
(* failed'.                                                                *)
(***************************************************************************)
StartTLSOrder == <<"dial", "plaingreeting", "starttls", "response", "handshake", "greeting">>

StartTLSLine ==
    <<"p", "r", "o", "x", "y", "0", SP, "S", "T", "A", "R", "T", "T", "L", "S">> \o CRLF

\* The second line the scripted server sends in the clear
PlainResponse(srv) == FirstLine(From(srv.plain, Len(FirstLine(srv.plain)) + 1))

\* Every step of the claim goes well against the scripted server
StartTLSGoesWell(srv) ==
    /\ srv.dial
    /\ HasLine(srv.plain)
    /\ srv.writeOK
    /\ PlainResponse(srv) /= <<>> /\ Contains(PlainResponse(srv), <<SP, "O", "K">>)
    /\ srv.handshake
    /\ HasLine(srv.tls)
    /\ \/ HasPrefix(srv.tls, <<"*", SP, "O", "K">>)
       \/ HasPrefix(srv.tls, <<"*", SP, "P", "R", "E", "A", "U", "T", "H">>)

StartTLSCase ==
    pfn = "DialUpstream" /\ pout /= NoResult /\ ~pin.mode.RemoteTLS /\ pin.mode.RemoteStartTLS

C34_StartTLSOrder ==
    StartTLSCase =>
        /\ IsPrefixOf(pout.dial.steps, StartTLSOrder)
        /\ (pout.dial.err = "nil") <=> StartTLSGoesWell(pin.srv)
        /\ Len(pout.dial.steps) >= 4 => pout.wire /= <<>> /\ pout.wire[1] = StartTLSLine
        /\ Len(pout.dial.steps) < 4 => pout.wire = <<>>
        /\ StartTLSGoesWell(pin.srv) =>
            /\ pout.dial.steps = StartTLSOrder
            /\ pout.wire = <<StartTLSLine, LoginLine(Accounts[1])>>
        /\ ~StartTLSGoesWell(pin.srv) =>
            /\ \A i \in 1..Len(pout.wire) : pout.wire[i] /= LoginLine(Accounts[1])
            /\ pout.reply = <<SP, "N", "O", SP>> \o W_LOGIN \o <<SP, "f", "a", "i", "l", "e", "d">> \o CRLF
            /\ ~pout.auth
            /\ pin.srv.dial => pout.closed

\* The whole exchange went well and the upstream took the LOGIN
C34_Witness ==
    /\ StartTLSCase /\ StartTLSGoesWell(pin.srv)
    /\ pout.dial.steps = StartTLSOrder
    /\ pout.wire = <<StartTLSLine, LoginLine(Accounts[1])>>
    /\ pout.auth

(***************************************************************************)
(* C35: in every reachable session state the bound account and the        *)
(* upstream connection are present iff the phase is Authenticated, the     *)
(* phase only moves forward (Greeting, then NotAuthenticated, then         *)
(* Authenticated, never back), and a session holds at most one open        *)
(* upstream connection at any time.                                        *)
(***************************************************************************)
\* Upstream connections that were opened and on which Close was not called
OpenUpstreams == dials - abandoned - (IF upstreamCloses > 0 THEN 1 ELSE 0)

BoundIffAuthenticated ==
    /\ state \in {"Greeting", "NotAuth", "Auth"}
    /\ (account /= NoAccount) <=> (state = "Auth")
    /\ (upstreamConn /= "nil") <=> (state = "Auth")
    /\ OpenUpstreams \in {0, 1}
    /\ OpenUpstreams = 1 => state = "Auth"

PhaseForward ==
    state' /= state =>
        \/ state = "Greeting" /\ state' = "NotAuth"
        \/ state = "NotAuth" /\ state' = "Auth"

C35_SessionInvariants == [](BoundIffAuthenticated) /\ [][PhaseForward]_vars

\* Authenticated at the second LOGIN, after an upstream that refused the
\* first: two connections were opened and one is open
C35_Witness ==
    /\ state = "Auth" /\ account /= NoAccount /\ upstreamConn /= "nil"
    /\ dials = 2 /\ abandoned = 1 /\ OpenUpstreams = 1

(***************************************************************************)
(* C36: read-only enforcement has no gap during IDLE: between the          *)
(* forwarded IDLE line and the forwarded DONE line no client line whose    *)
(* verb is in the blocked set (a STORE or DELETE command sent instead of   *)
(* DONE) is written to upstream.                                           *)
(***************************************************************************)
\* A line that reads as a command the policy blocks
BlockedLine(line) ==
    /\ ParseCommand(line).err = "nil"
    /\ Filter(ParseCommand(line)).Action = Block

C36_IdleKeepsPolicy ==
    \A i \in 1..Len(uout) : uout[i].kind = "idle" => ~BlockedLine(uout[i].data)

(***************************************************************************)
(* C37: the folder gate does not depend on how the mailbox argument is     *)
(* encoded: with a folder filter configured, a SELECT, EXAMINE or STATUS   *)
(* that names a hidden folder through a literal ('{N}' or '{N+}' followed  *)
(* by the N name bytes) is not forwarded to upstream, just like the atom   *)
(* and quoted-string forms.                                                *)
(***************************************************************************)
\* The command of cur gives its mailbox as a literal whose bytes the client
\* has sent
LiteralMailboxSent ==
    /\ state = "Auth" /\ cur.raw /= <<>> /\ CurCmd.err = "nil"
    /\ CurCmd.Verb \in {W_SELECT, W_EXAMINE, W_STATUS}
    /\ ParseLiteral(cur.raw).ok
    /\ CurMailbox /= <<>> /\ Head(CurMailbox) = "{"
    /\ Len(csent) >= CurEnd + ParseLiteral(cur.raw).n

LiteralMailbox == SubSeq(csent, CurEnd + 1, CurEnd + ParseLiteral(cur.raw).n)

C37_LiteralMailboxGated ==
    (/\ LiteralMailboxSent
     /\ HasFolderFilter(Accounts[account])
     /\ ~FolderAllowed(Accounts[account], LiteralMailbox)) => CurUpstream = <<>>

(***************************************************************************)
(* C38: with a folder filter configured, a SELECT, EXAMINE or STATUS line  *)
(* that has no mailbox argument or an empty one ('A1 SELECT' followed by a *)
(* single space and CRLF) is handled without aborting the session or the   *)
(* process: the gate treats the mailbox as absent, returns 'not blocked',  *)
(* and the line is forwarded like any allowed or rewritten command.        *)
(***************************************************************************)
\* Behind its verb the line of cur has nothing, or one space and nothing
NoMailboxArgument ==
    LET body == TrimRightCRLF(cur.raw)
        upto == Len(CurCmd.Tag) + 1 + Len(CurCmd.Verb)
    IN  Len(body) \in {upto, upto + 1}

C38_EmptyMailboxForwarded ==
    (/\ PolicyHandled
     /\ HasFolderFilter(Accounts[account])
     /\ CurCmd.Verb \in {W_SELECT, W_EXAMINE, W_STATUS}
     /\ NoMailboxArgument) =>
        /\ pcC /= "panic"
        /\ cur.act \in {"Allow", "Rewrite"}
        /\ UpstreamGone \/ CurForwarded

(***************************************************************************)
(* C39: every parseable command other than IDLE and LOGOUT read by the     *)
(* Authenticated command loop has exactly one outcome: either it is        *)
(* written to upstream (original or rewritten) and the proxy itself writes *)
(* no tagged reply for it, or exactly one local tagged NO line is written  *)
(* to the client and nothing of it is written to upstream; never both and  *)
(* never neither, and in both cases the client's tag is used unchanged.    *)
(***************************************************************************)
OutcomeForwarded ==
    /\ CurForwarded
    /\ ParseCommand(CurUpstream[1].data).Tag = CurCmd.Tag
    /\ CurReplies = <<>>

OutcomeRefused ==
    /\ CurUpstream = <<>>
    /\ Len(CurReplies) = 1
    /\ HasPrefix(CurReplies[1].data, CurCmd.Tag \o <<SP, "N", "O", SP>>)

\* While both peers take the proxy's writes
C39_ExactlyOneOutcome ==
    (PolicyHandled /\ ~ClientGone /\ ~UpstreamGone) =>
        /\ CurCmd.err = "nil" /\ CurCmd.Verb \notin {W_IDLE, W_LOGOUT}
        /\ OutcomeForwarded \/ OutcomeRefused
        /\ ~(OutcomeForwarded /\ OutcomeRefused)

====
